---- MODULE Spec2Model ----
(***************************************************************************)
(* Connection lifecycle and probe cache of the NZ7DEV fleet dashboard.     *)
(*                                                                         *)
(* Two programs are modelled, each a Flask application serving requests    *)
(* on concurrent threads next to one background cleanup thread:            *)
(*   app = "simple"  nz7dev_rdp_simple.py, class ConnectionManager         *)
(*   app = "gui"     nz7dev_gui.py, class RDPManager                       *)
(* Both keep a dictionary active_connections from connection id to a       *)
(* handle owning a client process.  A Python dict keeps insertion order,   *)
(* so the registry is a sequence of handles with pairwise distinct ids.    *)
(*                                                                         *)
(* A step of a thread is one action.  What the simple program does inside  *)
(* "with self.connection_lock" is one action: the lock makes it atomic.    *)
(* The gui program has no lock: its dictionary iterations are interleaved  *)
(* element by element with the steps of the other threads.                 *)
(*                                                                         *)
(* The clock is int(time.time()), read when an id is built.  Sleeps are    *)
(* not measured against it: request threads start at arbitrary offsets,    *)
(* so every order of clock ticks and registrations can occur.              *)
(*                                                                         *)
(* NetworkOptimizer.ping_target of nz7dev_gui.py is modelled next to them, *)
(* with a clock of its own (datetime.now() in whole seconds).              *)
(***************************************************************************)
EXTENDS Integers, Sequences, FiniteSets, TLC

VARIABLES
    app,                 \* which program runs: "simple" or "gui"
    active_connections,  \* the registry: sequence of handles in insertion order
    proc,                \* process table: proc[pid] in {"free","running","exited"}
    now,                 \* int(time.time())
    pc,                  \* position of every thread
    loc,                 \* local variables of every thread
    event,               \* what the last step let out: a call's return or a signal
    ping_cache,          \* NetworkOptimizer._ping_cache: ip -> (cached_time, result)
    ping_stored,         \* the second at which the entry of ip was written
    ping_clock,          \* datetime.now(), in seconds
    ping_pc,             \* position of the ping_target caller
    ping_loc,            \* locals of the ping_target caller
    status_cache,        \* MissionControl._status_cache: None or a snapshot
    last_status_update,  \* MissionControl._last_status_update: None or a time
    fleet_clock,         \* datetime.now(), in seconds, for the status cache
    fleet_pc,            \* position of the get_fleet_status callers and of the commander
    fleet_loc,           \* `now` of every get_fleet_status caller
    fleet_pending,       \* a fleet command succeeded and no get_fleet_status began since
    hypr_windows,        \* the titles of the windows Hyprland shows
    clients_cache,       \* HyprlandManager._clients_cache: None or a list of titles
    clients_stamped,     \* HyprlandManager._cache_time is not None
    hypr_pc,             \* position of the HyprlandManager call under way
    hypr_loc,            \* its locals
    hypr_monitors,       \* the monitors hyprctl reports, in its order
    presets,             \* ResolutionManager.presets: key -> ResolutionPreset
    presets_file,        \* the content of presets.json, None while it is missing
    conn_status,         \* ConnectionInfo.status of the handle of each process
    mon_pc,              \* position of monitor_connection, the thread of each spawn
    mon_loc,              \* its locals
    connection_lock,     \* the thread inside "with self.connection_lock", if any
    lock_pc,             \* the statement each thread of ConnectionManager is at
    lock_m,               \* the command variant connect_rdp is at
    open_ports,          \* the service ports that listen, on every address
    machines,            \* MachineScanner.machines: ip -> Machine
    scan_pc,             \* position of scan_network
    scan_todo,           \* the scan tasks of scan_network not yet collected
    discovered_machines,  \* discovered_machines of scan_network
    running,             \* MissionControl.running
    bc_pc,               \* position of every status broadcaster thread
    bc_loc,              \* its locals, with what its last iteration came to
    connected_clients,    \* the clients socketio counts in the namespace
    fleet_config,        \* ConfigManager._fleet_config
    config_file,          \* what save_config wrote to mission.yaml, if anything
    fs_clock,            \* datetime.now(), in seconds, for the fleet snapshot
    fs_commands,         \* fleet commands completed with success
    fs_ping,             \* NetworkOptimizer._ping_cache, for one address
    fs_clients,          \* HyprlandManager._clients_cache and _cache_time
    fs_status,           \* MissionControl._status_cache
    fs_updated,           \* MissionControl._last_status_update
    wm_moves             \* the numbered workspaces windows were sent to

conn_vars == <<app, active_connections, proc, now, pc, loc>>
ping_vars == <<ping_cache, ping_stored, ping_clock, ping_pc, ping_loc>>
fleet_vars == <<status_cache, last_status_update, fleet_clock, fleet_pc, fleet_loc,
               fleet_pending>>
hypr_vars == <<hypr_windows, clients_cache, clients_stamped, hypr_pc, hypr_loc>>
geo_vars == <<hypr_monitors>>
preset_vars == <<presets, presets_file>>
mon_vars == <<conn_status, mon_pc, mon_loc>>
lock_vars == <<connection_lock, lock_pc, lock_m>>
scan_vars == <<open_ports, machines, scan_pc, scan_todo, discovered_machines>>
bc_vars == <<running, bc_pc, bc_loc, connected_clients>>
config_vars == <<fleet_config, config_file>>
fs_vars == <<fs_clock, fs_commands, fs_ping, fs_clients, fs_status, fs_updated>>
assign_vars == <<wm_moves>>
vars == <<conn_vars, event, ping_vars, fleet_vars, hypr_vars, geo_vars, preset_vars, mon_vars, lock_vars, scan_vars, bc_vars, config_vars, fs_vars, assign_vars>>

\* what the steps of one component leave alone: the variables of the others
outside_lock == <<conn_vars, ping_vars, fleet_vars, hypr_vars, geo_vars, preset_vars, mon_vars, scan_vars, bc_vars, config_vars, fs_vars, assign_vars>>
outside_scan == <<conn_vars, ping_vars, fleet_vars, hypr_vars, geo_vars, preset_vars, mon_vars, lock_vars, bc_vars, config_vars, fs_vars, assign_vars>>
outside_bc == <<conn_vars, ping_vars, fleet_vars, hypr_vars, geo_vars, preset_vars, mon_vars, lock_vars, scan_vars, config_vars, fs_vars, assign_vars>>
outside_config == <<conn_vars, ping_vars, fleet_vars, hypr_vars, geo_vars, preset_vars, mon_vars, lock_vars, scan_vars, bc_vars, fs_vars, assign_vars>>
outside_fs == <<conn_vars, ping_vars, fleet_vars, hypr_vars, geo_vars, preset_vars, mon_vars, lock_vars, scan_vars, bc_vars, config_vars, assign_vars>>
outside_assign == <<conn_vars, ping_vars, fleet_vars, hypr_vars, geo_vars, preset_vars, mon_vars, lock_vars, scan_vars, bc_vars, config_vars, fs_vars>>
outside_gui == <<ping_vars, fleet_vars, hypr_vars, geo_vars, preset_vars, lock_vars, scan_vars, bc_vars, config_vars, fs_vars, assign_vars>>
outside_conn == <<outside_gui, mon_vars>>
outside_ping == <<conn_vars, fleet_vars, hypr_vars, geo_vars, preset_vars, mon_vars, lock_vars, scan_vars, bc_vars, config_vars, fs_vars, assign_vars>>
outside_fleet == <<conn_vars, ping_vars, hypr_vars, geo_vars, preset_vars, mon_vars, lock_vars, scan_vars, bc_vars, config_vars, fs_vars, assign_vars>>
outside_hypr == <<conn_vars, ping_vars, fleet_vars, geo_vars, preset_vars, mon_vars, lock_vars, scan_vars, bc_vars, config_vars, fs_vars, assign_vars>>
outside_preset == <<conn_vars, ping_vars, fleet_vars, hypr_vars, geo_vars, mon_vars, lock_vars, scan_vars, bc_vars, config_vars, fs_vars, assign_vars>>
outside_geo == <<conn_vars, ping_vars, fleet_vars, hypr_vars, preset_vars, mon_vars, lock_vars, scan_vars, bc_vars, config_vars, fs_vars, assign_vars>>

----------------------------------------------------------------------------
(* Bounds of the model *)

MaxSpawn == 2          \* client processes started in one run
MaxClock == 1          \* last second int(time.time()) reaches
MaxPingClock == 12     \* last second datetime.now() reaches
MaxPingDuration == 2   \* seconds a ping run may span (timeout + 0.5, rounded up)
MaxFleetClock == 4     \* last second the status cache's datetime.now() reaches
MaxBroadcasters == 2   \* status broadcaster threads started in one run
MaxClients == 6        \* socket clients connected at a time
MaxCommands == 2       \* fleet commands completed in one run
MaxBatch == 2          \* assignments in one batch
MaxSnapshotClock == 12 \* last second the snapshot's datetime.now() reaches

----------------------------------------------------------------------------
(* Inputs *)

IPs == {"ip1", "ip2"}
\* the connection types requested: "rdp", and "telnet", a connection_type the
\* code rejects
KindInputs == {"rdp", "telnet"}
Req == {"r1", "r2"}                     \* request threads of the simple program
GuiReq == {"r1"}                        \* request thread of the gui program
Cleaner == "cleaner"                    \* the cleanup thread
Threads == Req \cup {Cleaner}
NoId == <<>>
NoConn == [id |-> NoId, ip |-> "", pid |-> 0, kind |-> ""]

RdpMethods == 4      \* len(connection_methods)

----------------------------------------------------------------------------
(* The registry as an insertion-ordered dictionary *)

Keys(reg) == {reg[i].id : i \in 1..Len(reg)}

Handles(reg) == {reg[i] : i \in 1..Len(reg)}

Get(reg, id) == CHOOSE h \in Handles(reg) : h.id = id

\* reg[id] = h: an existing key keeps its place and gets the new value
Put(reg, h) ==
    IF h.id \in Keys(reg)
    THEN [i \in 1..Len(reg) |-> IF reg[i].id = h.id THEN h ELSE reg[i]]
    ELSE Append(reg, h)

\* del reg[id], for a key that is present
Del(reg, id) == SelectSeq(reg, LAMBDA h : h.id # id)

HandlesFor(reg, ip) == {h \in Handles(reg) : h.ip = ip}

Pids(reg) == {h.pid : h \in Handles(reg)}

\* connection id: f"{kind}_{ip}_{int(time.time())}"
ConnectionId(kind, ip, sec) == <<kind, ip, sec>>

AllIds == {ConnectionId("rdp", ip, s) : ip \in IPs, s \in 0..MaxClock}

----------------------------------------------------------------------------
(* Processes *)

NoEvent == [type |-> "none"]

\* the step lets nothing out
Quiet == event' = NoEvent

\* proc[p] is "free" (not started yet), "running" or "exited"
Pid == 1..MaxSpawn

Running(p) == p \in Pid /\ proc[p] = "running"

FreePids == {p \in Pid : proc[p] = "free"}

\* the pid of the next process started
NewPid == CHOOSE p \in FreePids : \A q \in FreePids : p <= q

Started(pr, p) == [pr EXCEPT ![p] = "running"]

\* a running client process exits on its own account (or in answer to SIGTERM)
ProcExit ==
    \E p \in Pid :
        /\ proc[p] = "running"
        /\ proc' = [proc EXCEPT ![p] = "exited"]
        /\ Quiet
        /\ UNCHANGED <<app, active_connections, now, pc, loc>>
        /\ UNCHANGED outside_conn

Tick ==
    /\ now < MaxClock
    /\ now' = now + 1
    /\ Quiet
    /\ UNCHANGED <<app, active_connections, proc, pc, loc>>
    /\ UNCHANGED outside_conn

----------------------------------------------------------------------------
(* Threads *)

\* op, ip, kind, id: the call and its arguments; pid: the process the call
\* holds (spawned, or looked up); m: connect_rdp's command variant;
\* timedOut: wait(timeout=5) raised; seen, dead, size0: the dictionary
\* iterator and dead_connections of a sweep
Locals0 ==
    [op |-> "", ip |-> "", kind |-> "", id |-> NoId, pid |-> 0, m |-> 0,
     timedOut |-> FALSE, seen |-> {}, dead |-> <<>>, size0 |-> 0, tried |-> <<>>]

\* the thread moves on
Jump(t, label) == pc' = [pc EXCEPT ![t] = label]

\* the thread moves on quietly
Goto(t, label) == Jump(t, label) /\ Quiet

Local(t, r) == loc' = [loc EXCEPT ![t] = r]

\* the call with locals r returns `result` (with `listing`, for a listing):
\* the thread is idle again and its locals are gone
Return(t, r, result, listing) ==
    /\ Jump(t, "idle")
    /\ Local(t, Locals0)
    /\ event' = [type |-> "return", thread |-> t, op |-> r.op, ip |-> r.ip, id |-> r.id,
                 pid |-> r.pid, ret |-> result, timedOut |-> r.timedOut,
                 listing |-> listing]

Done(t, r, result) == Return(t, r, result, {})

\* the step sends a signal to a process ("process") or to its group ("group")
Signal(t, p, sig, scope) ==
    event' = [type |-> "signal", thread |-> t, pid |-> p, sig |-> sig, scope |-> scope]

----------------------------------------------------------------------------
(* nz7dev_rdp_simple.py: ConnectionManager *)

\* a faulty lookup, by dictionary key instead of by the handle's ip
LookupByKey(reg, ip) == IF ip \in Keys(reg) THEN Get(reg, ip) ELSE NoConn

\* get_connection_by_ip: the first handle, in dictionary order, with this ip
get_connection_by_ip(reg, ip) ==
    IF \E i \in 1..Len(reg) : reg[i].ip = ip
    THEN reg[CHOOSE i \in 1..Len(reg) :
                /\ reg[i].ip = ip
                /\ \A j \in 1..(i - 1) : reg[j].ip # ip]
    ELSE NoConn

\* connect, after the lookup: reject, or dispatch on connection_type
ConnectDispatch(t, r, existing) ==
    IF existing # NoConn THEN Done(t, r, "already_connected")
    ELSE IF r.kind = "rdp"
         THEN Goto(t, "rdp_popen") /\ Local(t, [r EXCEPT !.m = 1])
    ELSE IF r.kind \in {"vnc", "ssh"}
         THEN Goto(t, "popen") /\ Local(t, r)    \* connect_vnc, connect_ssh: not requested here
    ELSE Done(t, r, "invalid_type")

\* ConnectionManager.connect(ip, connection_type): the lookup, under the lock,
\* then the rejection or the dispatch
Connect(t, ip, kind) ==
    /\ app = "simple"
    /\ pc[t] = "idle"
    /\ ConnectDispatch(t, [Locals0 EXCEPT !.op = "connect", !.ip = ip, !.kind = kind],
                       get_connection_by_ip(active_connections, ip))
    /\ UNCHANGED <<app, active_connections, proc, now>>
    /\ UNCHANGED outside_conn

\* disconnect, after the lookup: not found, or go on to terminate the process
DisconnectDispatch(t, r, connection) ==
    IF connection = NoConn THEN Done(t, r, "not_found")
    ELSE /\ Goto(t, "terminate")
         /\ Local(t, [r EXCEPT !.id = connection.id, !.pid = connection.pid])

\* ConnectionManager.disconnect(ip): the lookup, under the lock
Disconnect(t, ip) ==
    /\ app = "simple"
    /\ pc[t] = "idle"
    /\ DisconnectDispatch(t, [Locals0 EXCEPT !.op = "disconnect", !.ip = ip],
                          get_connection_by_ip(active_connections, ip))
    /\ UNCHANGED <<app, active_connections, proc, now>>
    /\ UNCHANGED outside_conn

\* a faulty connect_rdp, which tracks a connection after the last variant failed
RdpRegisterAnyway(t) ==
    IF loc[t].m < RdpMethods
    THEN Goto(t, "rdp_popen") /\ Local(t, [loc[t] EXCEPT !.m = @ + 1, !.pid = 0])
    ELSE Goto(t, "register") /\ UNCHANGED loc

\* connect_rdp: the next command variant, or the failure after the last one
RdpNextMethod(t) ==
    IF loc[t].m < RdpMethods
    THEN Goto(t, "rdp_popen") /\ Local(t, [loc[t] EXCEPT !.m = @ + 1, !.pid = 0])
    ELSE Done(t, [loc[t] EXCEPT !.pid = 0], "spawn_failed")

\* connect_rdp: subprocess.Popen of variant m; it starts a process or raises
RdpPopen(t) ==
    /\ app = "simple"
    /\ pc[t] = "rdp_popen"
    /\ \/ /\ FreePids # {}
          /\ proc' = Started(proc, NewPid)
          /\ Goto(t, "rdp_poll")
          /\ Local(t, [loc[t] EXCEPT !.pid = NewPid, !.tried = Append(@, NewPid)])
       \/ /\ RdpNextMethod(t)
          /\ UNCHANGED proc
    /\ UNCHANGED <<app, active_connections, now>>
    /\ UNCHANGED outside_conn

\* a faulty poll, which goes on to the next variant past a running process
RdpPollTriesAll(t) ==
    /\ app = "simple"
    /\ pc[t] = "rdp_poll"
    /\ IF Running(loc[t].pid) /\ loc[t].m = RdpMethods
       THEN Goto(t, "register") /\ UNCHANGED loc
       ELSE RdpNextMethod(t)
    /\ UNCHANGED <<app, active_connections, proc, now>>
    /\ UNCHANGED outside_conn

\* connect_rdp: after sleep(2), poll(): still running breaks out of the loop
RdpPoll(t) ==
    /\ app = "simple"
    /\ pc[t] = "rdp_poll"
    /\ IF Running(loc[t].pid)
       THEN Goto(t, "register") /\ UNCHANGED loc
       ELSE RdpNextMethod(t)
    /\ UNCHANGED <<app, active_connections, proc, now>>
    /\ UNCHANGED outside_conn

\* "Track connection": self.active_connections[connection_id] = connection
Register(t) ==
    /\ app = "simple"
    /\ pc[t] = "register"
    /\ LET id == ConnectionId(loc[t].kind, loc[t].ip, now)
       IN  /\ active_connections' =
                Put(active_connections,
                    [id |-> id, ip |-> loc[t].ip, pid |-> loc[t].pid, kind |-> loc[t].kind])
           /\ Done(t, [loc[t] EXCEPT !.id = id], "ok")
    /\ UNCHANGED <<app, proc, now>>
    /\ UNCHANGED outside_conn

\* disconnect: process.terminate(), SIGTERM to the process unless it has exited
Terminate(t) ==
    /\ app = "simple"
    /\ pc[t] = "terminate"
    /\ IF Running(loc[t].pid)
       THEN Jump(t, "wait") /\ Signal(t, loc[t].pid, "TERM", "process")
       ELSE Goto(t, "wait")
    /\ UNCHANGED <<app, active_connections, proc, now, loc>>
    /\ UNCHANGED outside_conn

\* disconnect: process.wait(timeout=5) returns, the process has exited
WaitExited(t) ==
    /\ app = "simple"
    /\ pc[t] = "wait"
    /\ ~Running(loc[t].pid)
    /\ Goto(t, "remove")
    /\ UNCHANGED <<app, active_connections, proc, now, loc>>
    /\ UNCHANGED outside_conn

\* disconnect: process.wait(timeout=5) raises TimeoutExpired
WaitTimeout(t) ==
    /\ app = "simple"
    /\ pc[t] = "wait"
    /\ Running(loc[t].pid)
    /\ Goto(t, "kill")
    /\ Local(t, [loc[t] EXCEPT !.timedOut = TRUE])
    /\ UNCHANGED <<app, active_connections, proc, now>>
    /\ UNCHANGED outside_conn

\* a forced kill that is never sent
KillOmitted(pr, p) == pr

\* the effect of SIGKILL on the process table
Killed(pr, p) == [pr EXCEPT ![p] = "exited"]

\* disconnect: process.kill() then wait(timeout=2); SIGKILL ends a running process
Kill(t) ==
    /\ app = "simple"
    /\ pc[t] = "kill"
    /\ IF Running(loc[t].pid)
       THEN /\ proc' = Killed(proc, loc[t].pid)
            /\ Jump(t, "remove")
            /\ Signal(t, loc[t].pid, "KILL", "process")
       ELSE /\ UNCHANGED proc
            /\ Goto(t, "remove")
    /\ UNCHANGED <<app, active_connections, now, loc>>
    /\ UNCHANGED outside_conn

\* disconnect: del self.active_connections[connection.connection_id]; a missing
\* key raises KeyError, which the outer handler turns into an error result
Remove(t) ==
    /\ app = "simple"
    /\ pc[t] = "remove"
    /\ IF loc[t].id \in Keys(active_connections)
       THEN /\ active_connections' = Del(active_connections, loc[t].id)
            /\ Done(t, loc[t], "ok")
       ELSE /\ UNCHANGED active_connections
            /\ Done(t, loc[t], "error")
    /\ UNCHANGED <<app, proc, now>>
    /\ UNCHANGED outside_conn

\* ConnectionManager.get_active_connections: a copy of the dictionary, taken
\* under the lock
List(t) ==
    /\ app = "simple"
    /\ pc[t] = "idle"
    /\ Return(t, [Locals0 EXCEPT !.op = "list"], "ok", Pids(active_connections))
    /\ UNCHANGED <<app, active_connections, proc, now>>
    /\ UNCHANGED outside_conn

\* the registry after a sweep: every handle whose process poll() reports as
\* exited is deleted
Swept(reg) == SelectSeq(reg, LAMBDA h : Running(h.pid))

\* ConnectionManager._cleanup_dead_connections, the whole sweep under the lock
Sweep(t) ==
    /\ app = "simple"
    /\ pc[t] = "sweep"
    /\ active_connections' = Swept(active_connections)
    /\ Goto(t, "sleep30")
    /\ UNCHANGED <<app, proc, now, loc>>
    /\ UNCHANGED outside_conn

\* cleanup_loop: time.sleep(30) or time.sleep(60) is over, the next sweep starts
Wake(t) ==
    /\ pc[t] \in {"sleep30", "sleep60"}
    /\ Goto(t, IF app = "simple" THEN "sweep" ELSE "scan")
    /\ Local(t, [Locals0 EXCEPT !.op = "cleanup", !.size0 = Len(active_connections)])
    /\ UNCHANGED <<app, active_connections, proc, now>>
    /\ UNCHANGED outside_conn

----------------------------------------------------------------------------
(* nz7dev_gui.py: RDPManager.  No lock guards active_connections. *)

\* spawn_connection: no lookup of an existing handle; the command line is
\* built and subprocess.Popen starts the client, or raises OSError, which is
\* returned as a failure
Spawn(t, ip) ==
    /\ app = "gui"
    /\ pc[t] = "idle"
    /\ \/ /\ FreePids # {}
          /\ proc' = Started(proc, NewPid)
          /\ Goto(t, "s_register")
          /\ Local(t, [Locals0 EXCEPT !.op = "spawn", !.ip = ip, !.kind = "rdp",
                                      !.pid = NewPid])
       \/ /\ Done(t, [Locals0 EXCEPT !.op = "spawn", !.ip = ip, !.kind = "rdp"],
                  "spawn_failed")
          /\ UNCHANGED proc
    /\ UNCHANGED <<app, active_connections, now>>
    /\ UNCHANGED outside_conn

\* spawn_connection, "Track connection": self.active_connections[connection_id] = conn_info
Track(t) ==
    /\ app = "gui"
    /\ pc[t] = "s_register"
    /\ LET id == ConnectionId("rdp", loc[t].ip, now)
       IN  /\ active_connections' =
                Put(active_connections,
                    [id |-> id, ip |-> loc[t].ip, pid |-> loc[t].pid, kind |-> "rdp"])
           /\ Done(t, [loc[t] EXCEPT !.id = id], "ok")
    /\ UNCHANGED <<app, proc, now>>

\* the registry's part of spawn_connection after Popen
SpawnRegister(t) ==
    /\ Track(t)
    /\ UNCHANGED outside_conn

\* kill_connection: if connection_id not in self.active_connections
KillConnection(t, id) ==
    /\ app = "gui"
    /\ pc[t] = "idle"
    /\ IF id \in Keys(active_connections)
       THEN Goto(t, "k_get") /\ Local(t, [Locals0 EXCEPT !.op = "kill", !.id = id])
       ELSE Done(t, [Locals0 EXCEPT !.op = "kill", !.id = id], "not_found")
    /\ UNCHANGED <<app, active_connections, proc, now>>
    /\ UNCHANGED outside_conn

\* kill_connection: conn_info = self.active_connections[connection_id], inside
\* the try block: KeyError becomes an error result
KillGet(t) ==
    /\ app = "gui"
    /\ pc[t] = "k_get"
    /\ IF loc[t].id \in Keys(active_connections)
       THEN /\ Goto(t, "k_term")
            /\ Local(t, [loc[t] EXCEPT !.pid = Get(active_connections, loc[t].id).pid,
                                       !.ip = Get(active_connections, loc[t].id).ip])
       ELSE Done(t, loc[t], "error")
    /\ UNCHANGED <<app, active_connections, proc, now>>
    /\ UNCHANGED outside_conn

\* kill_connection: os.killpg(os.getpgid(pid), 15).  For a process that has
\* exited, getpgid succeeds while the child is unreaped and raises
\* ProcessLookupError once a poll() or wait() has reaped it; either can be the
\* case, and the exception leads to the forced kill
KillTerm(t) ==
    /\ app = "gui"
    /\ pc[t] = "k_term"
    /\ \/ /\ Jump(t, "k_wait")
          /\ Signal(t, loc[t].pid, "TERM", "group")
       \/ /\ ~Running(loc[t].pid)
          /\ Goto(t, "k_kill")
    /\ UNCHANGED <<app, active_connections, proc, now, loc>>
    /\ UNCHANGED outside_conn

\* kill_connection: conn_info.process.wait(timeout=5) returns
KillWaitExited(t) ==
    /\ app = "gui"
    /\ pc[t] = "k_wait"
    /\ ~Running(loc[t].pid)
    /\ Goto(t, "k_del")
    /\ UNCHANGED <<app, active_connections, proc, now, loc>>
    /\ UNCHANGED outside_conn

\* kill_connection: conn_info.process.wait(timeout=5) raises TimeoutExpired
KillWaitTimeout(t) ==
    /\ app = "gui"
    /\ pc[t] = "k_wait"
    /\ Running(loc[t].pid)
    /\ Goto(t, "k_kill")
    /\ Local(t, [loc[t] EXCEPT !.timedOut = TRUE])
    /\ UNCHANGED <<app, active_connections, proc, now>>
    /\ UNCHANGED outside_conn

\* kill_connection: os.killpg(os.getpgid(pid), 9); ProcessLookupError for a
\* reaped process is passed over
KillKill(t) ==
    /\ app = "gui"
    /\ pc[t] = "k_kill"
    /\ IF Running(loc[t].pid)
       THEN /\ proc' = Killed(proc, loc[t].pid)
            /\ Jump(t, "k_del")
            /\ Signal(t, loc[t].pid, "KILL", "group")
       ELSE /\ UNCHANGED proc
            /\ Goto(t, "k_del")
    /\ UNCHANGED <<app, active_connections, now, loc>>
    /\ UNCHANGED outside_conn

\* kill_connection: del self.active_connections[connection_id]; KeyError
\* becomes an error result
KillDel(t) ==
    /\ app = "gui"
    /\ pc[t] = "k_del"
    /\ IF loc[t].id \in Keys(active_connections)
       THEN /\ active_connections' = Del(active_connections, loc[t].id)
            /\ Done(t, loc[t], "ok")
       ELSE /\ UNCHANGED active_connections
            /\ Done(t, loc[t], "error")
    /\ UNCHANGED <<app, proc, now>>
    /\ UNCHANGED outside_conn

\* a cleanup loop without its handler: the exception ends the thread
CleanupLoopDies(t) == Goto(t, "terminated") /\ Local(t, Locals0)

\* cleanup_loop, "except Exception": the error is logged and the loop sleeps 60 s
cleanup_loop_except(t) == Goto(t, "sleep60") /\ Local(t, Locals0)

\* an exception leaves _cleanup_dead_connections: cleanup_loop catches it,
\* get_active_connections lets it through to its caller
Raise(t) ==
    IF t = Cleaner
    THEN cleanup_loop_except(t)
    ELSE Done(t, loc[t], "exception")

\* RDPManager.get_active_connections: the call of _cleanup_dead_connections,
\* whose loop opens the dictionary iterator
GetActiveConnections(t) ==
    /\ app = "gui"
    /\ pc[t] = "idle"
    /\ Goto(t, "scan")
    /\ Local(t, [Locals0 EXCEPT !.op = "list", !.size0 = Len(active_connections)])
    /\ UNCHANGED <<app, active_connections, proc, now>>
    /\ UNCHANGED outside_conn

\* the handles a dictionary iteration has still to visit
Unvisited(t) ==
    {i \in 1..Len(active_connections) : active_connections[i].id \notin loc[t].seen}

\* RDPManager._cleanup_dead_connections, one turn of
\* "for conn_id, conn_info in self.active_connections.items()": the iterator
\* raises RuntimeError when the dictionary changed size since the loop began
Scan(t) ==
    /\ app = "gui"
    /\ pc[t] = "scan"
    /\ IF Len(active_connections) # loc[t].size0
       THEN Raise(t)
       ELSE IF Unvisited(t) = {}
       THEN Goto(t, "purge") /\ UNCHANGED loc
       ELSE LET i == CHOOSE k \in Unvisited(t) : \A j \in Unvisited(t) : k <= j
                h == active_connections[i]
            IN  /\ Local(t, [loc[t] EXCEPT
                        !.seen = @ \cup {h.id},
                        !.dead = IF Running(h.pid) THEN @ ELSE Append(@, h.id)])
                /\ UNCHANGED pc
                /\ Quiet
    /\ UNCHANGED <<app, active_connections, proc, now>>
    /\ UNCHANGED outside_conn

\* RDPManager._cleanup_dead_connections, one turn of "for conn_id in
\* dead_connections: del self.active_connections[conn_id]"
Purge(t) ==
    /\ app = "gui"
    /\ pc[t] = "purge"
    /\ IF loc[t].dead = <<>>
       THEN /\ IF t = Cleaner
               THEN Goto(t, "sleep30") /\ Local(t, Locals0)
               ELSE Goto(t, "build") /\ UNCHANGED loc
            /\ UNCHANGED active_connections
       ELSE IF Head(loc[t].dead) \in Keys(active_connections)
       THEN /\ active_connections' = Del(active_connections, Head(loc[t].dead))
            /\ Local(t, [loc[t] EXCEPT !.dead = Tail(@)])
            /\ UNCHANGED pc
            /\ Quiet
       ELSE /\ Raise(t)
            /\ UNCHANGED active_connections
    /\ UNCHANGED <<app, proc, now>>
    /\ UNCHANGED outside_conn

\* RDPManager.get_active_connections: the summary of every registered handle
Build(t) ==
    /\ app = "gui"
    /\ pc[t] = "build"
    /\ Return(t, loc[t], "ok", Pids(active_connections))
    /\ UNCHANGED <<app, active_connections, proc, now>>
    /\ UNCHANGED outside_conn

----------------------------------------------------------------------------
(* nz7dev_gui.py: NetworkOptimizer.ping_target *)

cache_duration == 10     \* self._cache_duration = timedelta(seconds=10)

\* what subprocess.run of ping comes to: exit status 0, another exit status,
\* TimeoutExpired, or the OSError of a ping utility that cannot be started
PingOutcomes == {"alive", "dead", "timeout", "oserror"}

PingLocals0 == [ip |-> "", now |-> 0]

\* "if ip in self._ping_cache" and "now - cached_time < self._cache_duration"
CacheHit(cache, ip, t) == ip \in DOMAIN cache /\ t - cache[ip].time < cache_duration

\* self._ping_cache[ip] = (now, result)
CachePut(cache, ip, t, result) ==
    [k \in DOMAIN cache \cup {ip} |->
        IF k = ip THEN [time |-> t, result |-> result] ELSE cache[k]]

PingReturn(ip, result, ran) ==
    event' = [type |-> "return", op |-> "ping", ip |-> ip, ret |-> result, ran |-> ran,
              raised |-> FALSE]

\* the call ends with the exception of subprocess.run
PingRaise(op, ip) ==
    event' = [type |-> "return", op |-> op, ip |-> ip, ret |-> "exception", ran |-> TRUE,
              raised |-> TRUE]

\* ping_target(ip): now = datetime.now(), then the cache check: a fresh entry
\* is returned, anything else leads to the ping
PingTarget(ip) ==
    /\ ping_pc = "idle"
    /\ IF CacheHit(ping_cache, ip, ping_clock)
       THEN /\ PingReturn(ip, ping_cache[ip].result, FALSE)
            /\ UNCHANGED <<ping_pc, ping_loc>>
       ELSE /\ ping_pc' = "run"
            /\ ping_loc' = [ip |-> ip, now |-> ping_clock]
            /\ Quiet
    /\ UNCHANGED <<ping_cache, ping_stored, ping_clock>>
    /\ UNCHANGED outside_ping

\* ping_target: subprocess.run ends.  The result is stored under the `now` of
\* the call's entry; TimeoutExpired stores False; OSError is not caught and
\* leaves the cache as it is
PingRun(outcome) ==
    /\ ping_pc = "run"
    /\ ping_pc' = "idle"
    /\ ping_loc' = PingLocals0
    /\ IF outcome = "oserror"
       THEN /\ PingRaise("ping", ping_loc.ip)
            /\ UNCHANGED <<ping_cache, ping_stored>>
       ELSE /\ ping_cache' = CachePut(ping_cache, ping_loc.ip, ping_loc.now, outcome = "alive")
            /\ ping_stored' = [k \in DOMAIN ping_stored \cup {ping_loc.ip} |->
                                  IF k = ping_loc.ip THEN ping_clock ELSE ping_stored[k]]
            /\ PingReturn(ping_loc.ip, outcome = "alive", TRUE)
    /\ UNCHANGED ping_clock
    /\ UNCHANGED outside_ping

\* nz7dev_rdp_simple.py, MachineScanner.ping_host(ip): returncode == 0, False
\* for TimeoutExpired; OSError is not caught
PingHost(ip) ==
    /\ \E outcome \in PingOutcomes :
          IF outcome = "oserror"
          THEN PingRaise("ping_host", ip)
          ELSE event' = [type |-> "return", op |-> "ping_host", ip |-> ip,
                         ret |-> (outcome = "alive"), ran |-> TRUE, raised |-> FALSE]
    /\ UNCHANGED <<ping_cache, ping_stored, ping_clock, ping_pc, ping_loc>>
    /\ UNCHANGED outside_ping

\* a second passes; a ping in flight ends within its timeout
PingTick ==
    /\ ping_clock < MaxPingClock
    /\ ping_pc = "run" => ping_clock - ping_loc.now < MaxPingDuration
    /\ ping_clock' = ping_clock + 1
    /\ Quiet
    /\ UNCHANGED <<ping_cache, ping_stored, ping_pc, ping_loc>>
    /\ UNCHANGED outside_ping

----------------------------------------------------------------------------
(* nz7dev_gui.py: MissionControl, the fleet status cache *)

status_cache_duration == 3     \* self._status_cache_duration = timedelta(seconds=3)

\* an Optional is a sequence: None, or the one value it holds
None == <<>>

Some(x) == <<x>>

The(o) == o[1]

\* the callers of get_fleet_status: the monitoring thread and a request thread
StatusCallers == {"monitor", "api"}
Commander == "commander"
\* a valid fleet command and an invalid one
Commands == {"up", "reboot"}
valid_commands == {"up", "down", "morning", "fastup", "windows", "scratchpad"}
\* what subprocess.run of the script comes to
CommandOutcomes == {"ok", "failed", "timeout", "notfound"}

\* "Use cached status if recent"
StatusCacheHit(cache, updated, t) ==
    cache # None /\ updated # None /\ t - The(updated) < status_cache_duration

FleetReturn(c, op, result, recomputed) ==
    event' = [type |-> "return", thread |-> c, op |-> op, ret |-> result,
              recomputed |-> recomputed]

\* get_fleet_status: now = datetime.now() and the test of the cache
GetFleetStatus(c) ==
    /\ fleet_pc[c] = "idle"
    /\ fleet_loc' = [fleet_loc EXCEPT ![c] = fleet_clock]
    /\ fleet_pc' = [fleet_pc EXCEPT ![c] =
            IF StatusCacheHit(status_cache, last_status_update, fleet_clock)
            THEN "cached" ELSE "compute"]
    /\ fleet_pending' = FALSE
    /\ Quiet
    /\ UNCHANGED <<status_cache, last_status_update, fleet_clock>>
    /\ UNCHANGED outside_fleet

\* get_fleet_status: return self._status_cache
ReturnCached(c) ==
    /\ fleet_pc[c] = "cached"
    /\ fleet_pc' = [fleet_pc EXCEPT ![c] = "idle"]
    /\ FleetReturn(c, "status", status_cache, FALSE)
    /\ UNCHANGED <<status_cache, last_status_update, fleet_clock, fleet_loc, fleet_pending>>
    /\ UNCHANGED outside_fleet

\* get_fleet_status: the batch ping and the status of every VM are collected,
\* then self._status_cache = status
StoreStatus(c) ==
    /\ fleet_pc[c] = "compute"
    /\ fleet_pc' = [fleet_pc EXCEPT ![c] = "stamp"]
    /\ status_cache' = Some([last_updated |-> fleet_loc[c]])
    /\ Quiet
    /\ UNCHANGED <<last_status_update, fleet_clock, fleet_loc, fleet_pending>>
    /\ UNCHANGED outside_fleet

\* get_fleet_status: self._last_status_update = now, and the return
StampStatus(c) ==
    /\ fleet_pc[c] = "stamp"
    /\ fleet_pc' = [fleet_pc EXCEPT ![c] = "idle"]
    /\ last_status_update' = Some(fleet_loc[c])
    /\ FleetReturn(c, "status", Some([last_updated |-> fleet_loc[c]]), TRUE)
    /\ UNCHANGED <<status_cache, fleet_clock, fleet_loc, fleet_pending>>
    /\ UNCHANGED outside_fleet

\* execute_script_command: the validation of the command
ExecuteScriptCommand(command) ==
    /\ fleet_pc[Commander] = "idle"
    /\ IF command \in valid_commands
       THEN /\ fleet_pc' = [fleet_pc EXCEPT ![Commander] = "run"]
            /\ Quiet
       ELSE /\ FleetReturn(Commander, "command", "invalid", FALSE)
            /\ UNCHANGED fleet_pc
    /\ UNCHANGED <<status_cache, last_status_update, fleet_clock, fleet_loc, fleet_pending>>
    /\ UNCHANGED outside_fleet

\* execute_script_command: subprocess.run of the script ends
CommandRun(outcome) ==
    /\ fleet_pc[Commander] = "run"
    /\ IF outcome = "ok"
       THEN /\ fleet_pc' = [fleet_pc EXCEPT ![Commander] = "invalidate"]
            /\ Quiet
       ELSE /\ fleet_pc' = [fleet_pc EXCEPT ![Commander] = "idle"]
            /\ FleetReturn(Commander, "command", outcome, FALSE)
    /\ UNCHANGED <<status_cache, last_status_update, fleet_clock, fleet_loc, fleet_pending>>
    /\ UNCHANGED outside_fleet

\* execute_script_command: self._status_cache = None
InvalidateCache ==
    /\ fleet_pc[Commander] = "invalidate"
    /\ fleet_pc' = [fleet_pc EXCEPT ![Commander] = "invalidate2"]
    /\ status_cache' = None
    /\ Quiet
    /\ UNCHANGED <<last_status_update, fleet_clock, fleet_loc, fleet_pending>>
    /\ UNCHANGED outside_fleet

\* execute_script_command: self._last_status_update = None, and the return of
\* success
InvalidateStamp ==
    /\ fleet_pc[Commander] = "invalidate2"
    /\ fleet_pc' = [fleet_pc EXCEPT ![Commander] = "idle"]
    /\ last_status_update' = None
    /\ fleet_pending' = TRUE
    /\ FleetReturn(Commander, "command", "ok", FALSE)
    /\ UNCHANGED <<status_cache, fleet_clock, fleet_loc>>
    /\ UNCHANGED outside_fleet

FleetTick ==
    /\ fleet_clock < MaxFleetClock
    /\ fleet_clock' = fleet_clock + 1
    /\ Quiet
    /\ UNCHANGED <<status_cache, last_status_update, fleet_pc, fleet_loc, fleet_pending>>
    /\ UNCHANGED outside_fleet

FleetInit ==
    /\ status_cache = None
    /\ last_status_update = None
    /\ fleet_clock = 0
    /\ fleet_pc = [c \in StatusCallers \cup {Commander} |-> "idle"]
    /\ fleet_loc = [c \in StatusCallers |-> 0]
    /\ fleet_pending = FALSE

----------------------------------------------------------------------------
(* nz7dev_gui.py: HyprlandManager *)

\* a title is a sequence of pieces; str.startswith is the prefix test
StartsWith(title, prefix) ==
    Len(prefix) <= Len(title) /\ SubSeq(title, 1, Len(prefix)) = prefix

\* window_title = f"FreeRDP: {ip}"
CanonicalTitle(ip) == <<"FreeRDP: ", ip>>

\* alternate_titles; the last one is built from the last octet of the ip
AlternateTitles(ip) ==
    << <<ip, " - FreeRDP">>,
       <<"RDP - ", ip>>,
       <<"FreeRDP (", ip, ")">>,
       <<"192.168.1.", <<"last octet", ip>>, " - FreeRDP">> >>

\* the windows that open and close here: the client of ip1 under its canonical
\* title or under its first alternate title
WindowTitles == {CanonicalTitle("ip1"), AlternateTitles("ip1")[1]}

\* the titles looked for: those, and the title of a client that never appears
TitleInputs == WindowTitles \cup {CanonicalTitle("ip2")}

\* geometry strings, split at 'x': "1824x1026", and "auto", which does not parse
GeometryInputs == {<<1824, 1026>>, <<"auto">>}

\* width, height = map(int, geometry.split('x')) succeeds
GeometryParses(geometry) == Len(geometry) = 2 /\ \A i \in 1..2 : geometry[i] \in Nat

\* hyprctl clients -j: valid JSON, output that is no JSON, a non-zero exit,
\* TimeoutExpired, or the OSError of a hyprctl that cannot be started
ClientOutcomes == {"json", "garbage", "nonzero", "timeout", "oserror"}

\* get_clients refreshes when the cache or its time is None or the cache is
\* older than 2 seconds; "fresh" is the other case
ClientCases == ClientOutcomes \cup {"fresh"}

ClientCasePossible(o) == o = "fresh" => (clients_cache # None /\ clients_stamped)

\* _get_cached_clients catches TimeoutExpired only
ClientsRaises(o) == o = "oserror"

\* self._clients_cache after get_clients
ClientsCacheAfter(o) ==
    CASE o = "json" -> Some(hypr_windows)
      [] o \in {"garbage", "nonzero", "timeout"} -> Some({})
      [] OTHER -> clients_cache

\* self._cache_time is set after get_clients: JSONDecodeError skips the stamp
ClientsStampedAfter(o) ==
    IF o \in {"json", "nonzero", "timeout"} THEN TRUE ELSE clients_stamped

\* return self._clients_cache or []
ClientsListing(o) == The(ClientsCacheAfter(o))

HyprLocals0 ==
    [op |-> "", title |-> <<>>, checks |-> 0, found |-> FALSE, i |-> 0,
     issued |-> <<>>, codes |-> <<>>, success |-> TRUE, raised |-> FALSE]

HyprReturn(r, result) ==
    /\ hypr_pc' = "idle"
    /\ hypr_loc' = HyprLocals0
    /\ event' = [type |-> "return", op |-> r.op, title |-> r.title, ret |-> result,
                 raised |-> r.raised, found |-> r.found, checks |-> r.checks,
                 issued |-> r.issued, codes |-> r.codes]

\* get_clients(), called by itself
GetClients ==
    /\ hypr_pc = "idle"
    /\ \E o \in ClientCases :
          /\ ClientCasePossible(o)
          /\ clients_cache' = ClientsCacheAfter(o)
          /\ clients_stamped' = ClientsStampedAfter(o)
          /\ HyprReturn([HyprLocals0 EXCEPT !.op = "clients", !.raised = ClientsRaises(o)],
                        IF ClientsRaises(o) THEN {} ELSE ClientsListing(o))
    /\ UNCHANGED hypr_windows
    /\ UNCHANGED outside_hypr

\* max_retries of position_window and of assign_to_scratchpad
max_retries(op) == IF op = "position" THEN 10 ELSE 5

\* the hyprctl dispatch commands of position_window and assign_to_scratchpad
commands(op) ==
    IF op = "position"
    THEN <<"movetoworkspacesilent", "resizewindowpixel", "movewindowpixel">>
    ELSE <<"movetoworkspacesilent special", "resizewindowpixel", "movewindowpixel">>

\* position_window / assign_to_scratchpad: the geometry is parsed; ValueError
\* is caught by the outer handler, which returns False
PlaceWindow(op, title, geometry) ==
    /\ hypr_pc = "idle"
    /\ LET r == [HyprLocals0 EXCEPT !.op = op, !.title = title]
       IN  IF GeometryParses(geometry)
           THEN hypr_pc' = "check" /\ hypr_loc' = r /\ Quiet
           ELSE HyprReturn(r, FALSE)
    /\ UNCHANGED <<hypr_windows, clients_cache, clients_stamped>>
    /\ UNCHANGED outside_hypr

\* a faulty wait loop, without the else branch of its for: it goes on to the
\* commands when the retries are used up
RetriesFallThrough(r) ==
    hypr_pc' = "dispatch" /\ hypr_loc' = [r EXCEPT !.i = 1] /\ Quiet

\* the else branch of the wait loop: the window was not found, return False
RetriesExhausted(r) == HyprReturn(r, FALSE)

\* one turn of the wait loop: check_window_exists(window_title), that is
\* get_clients() and the prefix test on every title
CheckWindowExists ==
    /\ hypr_pc = "check"
    /\ \E o \in ClientCases :
          /\ ClientCasePossible(o)
          /\ clients_cache' = ClientsCacheAfter(o)
          /\ clients_stamped' = ClientsStampedAfter(o)
          /\ LET r == [hypr_loc EXCEPT !.checks = @ + 1]
             IN  IF ClientsRaises(o)
                 THEN HyprReturn(r, FALSE)
                 ELSE IF \E w \in ClientsListing(o) : StartsWith(w, r.title)
                 THEN /\ hypr_pc' = "dispatch"
                      /\ hypr_loc' = [r EXCEPT !.found = TRUE, !.i = 1]
                      /\ Quiet
                 ELSE IF r.checks = max_retries(r.op)
                 THEN RetriesExhausted(r)
                 ELSE hypr_pc' = "check" /\ hypr_loc' = r /\ Quiet
    /\ UNCHANGED hypr_windows
    /\ UNCHANGED outside_hypr

\* subprocess.run(['hyprctl', 'dispatch', ...]): exit status 0, another exit
\* status, TimeoutExpired, another exception
DispatchOutcomes == {"0", "1", "timeout", "error"}

\* a faulty flag: the result of the last command alone
SuccessOfLast(success, outcome) == outcome = "0"

\* success stays True while every command exits with 0
SuccessAfter(success, outcome) == success /\ outcome = "0"

\* one turn of "for i, cmd in enumerate(commands)"; after the last command,
\* return success
Dispatch ==
    /\ hypr_pc = "dispatch"
    /\ \E outcome \in DispatchOutcomes :
          LET r == [hypr_loc EXCEPT
                      !.issued = Append(@, commands(hypr_loc.op)[hypr_loc.i]),
                      !.codes = Append(@, outcome),
                      !.success = SuccessAfter(@, outcome),
                      !.i = @ + 1]
          IN  IF hypr_loc.i = Len(commands(hypr_loc.op))
              THEN HyprReturn(r, r.success)
              ELSE hypr_pc' = "dispatch" /\ hypr_loc' = r /\ Quiet
    /\ UNCHANGED <<hypr_windows, clients_cache, clients_stamped>>
    /\ UNCHANGED outside_hypr

\* a window opens or closes
WindowChange ==
    /\ \E w \in WindowTitles :
          hypr_windows' = IF w \in hypr_windows THEN hypr_windows \ {w}
                                                ELSE hypr_windows \cup {w}
    /\ Quiet
    /\ UNCHANGED <<clients_cache, clients_stamped, hypr_pc, hypr_loc>>
    /\ UNCHANGED outside_hypr

HyprInit ==
    /\ hypr_windows = {}
    /\ clients_cache = None
    /\ clients_stamped = FALSE
    /\ hypr_pc = "idle"
    /\ hypr_loc = HyprLocals0

----------------------------------------------------------------------------
(* nz7dev_gui.py: workspace resolution and geometry presets *)

\* monitors as hyprctl monitors -j lists them: size, the id of the active
\* workspace, the id of the special workspace (0: none), the focus
Resolutions == {<<1920, 1080>>, <<2560, 1440>>, <<800, 600>>}

Monitors ==
    [size : Resolutions, activeWorkspace : {1, 2}, specialWorkspace : {0, 3},
     focused : BOOLEAN]

\* no monitor, one monitor, two monitors; a workspace is active on one monitor
\* only and one monitor at most has the focus
MonitorSetups ==
    {<<>>} \cup {<<m>> : m \in Monitors}
           \cup {s \in Monitors \X Monitors :
                    /\ s[1].activeWorkspace # s[2].activeWorkspace
                    /\ ~(s[1].focused /\ s[2].focused)}

\* hyprctl monitors -j: the list, nothing usable (non-zero exit, timeout,
\* invalid JSON give []), or the OSError of a hyprctl that cannot be started
MonitorOutcomes == {"json", "empty", "oserror"}

\* get_monitors()
get_monitors(outcome) == IF outcome = "json" THEN hypr_monitors ELSE <<>>

\* the first monitor whose active or special workspace is the workspace
OwnerIndex(monitors, workspace) ==
    LET owns == {i \in 1..Len(monitors) :
                    \/ monitors[i].activeWorkspace = workspace
                    \/ (monitors[i].specialWorkspace # 0
                        /\ monitors[i].specialWorkspace = workspace)}
    IN  IF owns = {} THEN 0 ELSE CHOOSE i \in owns : \A j \in owns : i <= j

\* otherwise the first focused monitor, otherwise the first monitor
FallbackIndex(monitors) ==
    LET focused == {i \in 1..Len(monitors) : monitors[i].focused}
    IN  IF focused # {} THEN CHOOSE i \in focused : \A j \in focused : i <= j
        ELSE IF monitors # <<>> THEN 1 ELSE 0

\* target_monitor of get_workspace_resolution, as None or Some(monitor)
target_monitor(monitors, workspace) ==
    LET i == OwnerIndex(monitors, workspace)
        k == IF i # 0 THEN i ELSE FallbackIndex(monitors)
    IN  IF k = 0 THEN None ELSE Some(monitors[k])

\* a faulty height, without the room of the bar
FullHeight(height) == height

\* 40 pixels are kept for waybar: max(height - 40, 600)
effective_height(height) == IF height - 40 > 600 THEN height - 40 ELSE 600

\* get_workspace_resolution(workspace), on the monitors listed
get_workspace_resolution(monitors, workspace) ==
    LET target == target_monitor(monitors, workspace)
    IN  IF target = None THEN <<1920, 1040>>
        ELSE <<The(target).size[1], effective_height(The(target).size[2])>>

\* int(n * 0.percent): the float product truncated; on the sizes of
\* Resolutions it is the integer quotient
Scaled(n, percent) == (n * percent) \div 100

\* presets of calculate_geometry_from_preset, as percentages of width and height
geometry_presets ==
    [full |-> <<95, 95>>, half_left |-> <<48, 95>>, half_right |-> <<48, 95>>,
     half_top |-> <<95, 47>>, half_bottom |-> <<95, 47>>, quarter |-> <<48, 47>>,
     third |-> <<31, 95>>, two_thirds |-> <<63, 95>>]

\* size_preset: the presets, custom, and a name that is no preset
SizePresets == DOMAIN geometry_presets \cup {"custom", "huge"}

\* custom_geometry: None, "1280x720", "auto"
CustomGeometries == {None, Some(<<1280, 720>>), Some(<<"auto">>)}

\* the size of a preset on a workspace of size ws
PresetSize(ws, name) ==
    <<Scaled(ws[1], geometry_presets[name][1]), Scaled(ws[2], geometry_presets[name][2])>>

\* calculate_geometry_from_preset(workspace, size_preset, custom_geometry); the
\* result f"{width}x{height}" is kept as <<width, height>>
calculate_geometry_from_preset(outcome, workspace, size_preset, custom_geometry) ==
    IF outcome = "oserror" THEN <<1920, 1080>>
    ELSE LET ws == get_workspace_resolution(get_monitors(outcome), workspace)
         IN  IF /\ size_preset = "custom"
                /\ custom_geometry # None
                /\ GeometryParses(The(custom_geometry))
             THEN The(custom_geometry)
             ELSE IF size_preset \in DOMAIN geometry_presets
             THEN PresetSize(ws, size_preset)
             ELSE PresetSize(ws, "full")

\* a call of calculate_geometry_from_preset
CalculateGeometry ==
    /\ \E outcome \in MonitorOutcomes : \E workspace \in 1..3 :
       \E size_preset \in SizePresets :
       \E custom_geometry \in IF size_preset = "custom" THEN CustomGeometries ELSE {None} :
          event' = [type |-> "return", op |-> "geometry",
                    workspace |-> workspace, size_preset |-> size_preset,
                    custom_geometry |-> custom_geometry,
                    monitor |-> IF outcome = "oserror" THEN None
                                ELSE target_monitor(get_monitors(outcome), workspace),
                    ret |-> calculate_geometry_from_preset(outcome, workspace,
                                                           size_preset, custom_geometry)]
    /\ UNCHANGED hypr_monitors
    /\ UNCHANGED outside_geo

\* the monitor of the components that do not ask for it
GeoInit == hypr_monitors = <<>>

----------------------------------------------------------------------------
(* nz7dev_rdp_simple.py: ResolutionManager *)

\* names are sequences of characters
Lower(c) == CASE c = "H" -> "h" [] c = "D" -> "d" [] OTHER -> c

\* key = name.lower().replace(' ', '_').replace('-', '_')
PresetKey(name) ==
    [i \in 1..Len(name) |->
        LET c == Lower(name[i]) IN IF c \in {" ", "-"} THEN "_" ELSE c]

ResolutionPreset(name, width, height, description) ==
    [name |-> name, width |-> width, height |-> height, description |-> description]

\* the presets asked for: "HD", and three names of one key
PresetInputs ==
    { ResolutionPreset(<<"H", "D">>, 1280, 720, "Standard 720p resolution"),
      ResolutionPreset(<<"h", "-", "d">>, 1600, 900, "test"),
      ResolutionPreset(<<"h", " ", "d">>, 1920, 900, "test"),
      ResolutionPreset(<<"H", " ", "D">>, 1600, 900, "") }

\* the keys asked for: those of the names, and a name that is no key
KeyInputs == {PresetKey(q.name) : q \in PresetInputs} \cup {<<"H", "D">>}

\* default_presets; "hd" stands for the eight of them
default_presets ==
    (<<"h", "d">> :> ResolutionPreset(<<"H", "D">>, 1280, 720, "Standard 720p resolution"))

\* a faulty store, which keeps the preset a key has
KeepExisting(map, key, preset) ==
    [k \in DOMAIN map \cup {key} |-> IF k \in DOMAIN map THEN map[k] ELSE preset]

\* presets with presets[key] = preset
PresetPut(map, key, preset) ==
    [k \in DOMAIN map \cup {key} |-> IF k = key THEN preset ELSE map[k]]

\* presets after del presets[key]
PresetDel(map, key) == [k \in DOMAIN map \ {key} |-> map[k]]

\* open or json.dump may fail; save_presets logs it
SaveOutcomes == {"saved", "failed"}

\* save_presets()
save_presets(outcome, map) ==
    presets_file' = IF outcome = "saved" THEN Some(map) ELSE presets_file

PresetReturn(op, key, result) ==
    event' = [type |-> "return", op |-> op, key |-> key, ret |-> result]

\* add_preset(name, width, height, description)
AddPreset(q) ==
    /\ presets' = PresetPut(presets, PresetKey(q.name), q)
    /\ \E outcome \in SaveOutcomes : save_presets(outcome, presets')
    /\ PresetReturn("add_preset", PresetKey(q.name), Some(TRUE))
    /\ UNCHANGED outside_preset

\* edit_preset(key, name, width, height, description)
EditPreset(key, q) ==
    /\ IF key \in DOMAIN presets
       THEN /\ presets' = PresetPut(presets, key, q)
            /\ \E outcome \in SaveOutcomes : save_presets(outcome, presets')
            /\ PresetReturn("edit_preset", key, Some(TRUE))
       ELSE /\ UNCHANGED <<presets, presets_file>>
            /\ PresetReturn("edit_preset", key, Some(FALSE))
    /\ UNCHANGED outside_preset

\* delete_preset(key)
DeletePreset(key) ==
    /\ IF key \in DOMAIN presets
       THEN /\ presets' = PresetDel(presets, key)
            /\ \E outcome \in SaveOutcomes : save_presets(outcome, presets')
            /\ PresetReturn("delete_preset", key, Some(TRUE))
       ELSE /\ UNCHANGED <<presets, presets_file>>
            /\ PresetReturn("delete_preset", key, Some(FALSE))
    /\ UNCHANGED outside_preset

\* self.presets.get(key)
get_preset(map, key) == IF key \in DOMAIN map THEN Some(map[key]) ELSE None

\* self.presets.copy()
get_presets(map) == map

\* get_preset(key)
GetPreset(key) ==
    /\ PresetReturn("get_preset", key, get_preset(presets, key))
    /\ UNCHANGED <<presets, presets_file>>
    /\ UNCHANGED outside_preset

\* get_presets()
GetPresets ==
    /\ PresetReturn("get_presets", <<>>, Some(get_presets(presets)))
    /\ UNCHANGED <<presets, presets_file>>
    /\ UNCHANGED outside_preset

\* "full_hd", the key connect_rdp falls back to: the default preset here
fallback_key == <<"h", "d">>

\* connect_rdp, "Get resolution": a key that is no preset becomes "full_hd",
\* and presets[resolution_key] is the preset, or the KeyError that the handler
\* of connect_rdp turns into its failure result (None here)
ResolvePreset(resolution_key) ==
    /\ LET map == get_presets(presets)
           key == IF resolution_key \notin DOMAIN map THEN fallback_key ELSE resolution_key
       IN  PresetReturn("connect_rdp", resolution_key, get_preset(map, key))
    /\ UNCHANGED <<presets, presets_file>>
    /\ UNCHANGED outside_preset

\* load_presets() without presets.json: the defaults, saved if the file can
\* be written
PresetInit ==
    /\ presets = default_presets
    /\ presets_file \in {None, Some(default_presets)}

\* the presets of the components that do not ask for them
PresetRest == presets = default_presets /\ presets_file = Some(default_presets)

----------------------------------------------------------------------------
(* nz7dev_gui.py: RDPManager.spawn_connection, the thread monitor_connection *)

MonLocals0 ==
    [ip |-> "", poll_result |-> "", polled |-> "", i |-> 0, tried |-> <<>>,
     results |-> <<>>]

\* process.poll(): None while the process runs
Poll(p) == IF Running(p) THEN "none" ELSE "exited"

\* the titles of the window of ip, in the order they are tried
PlacementTitles(ip) == <<CanonicalTitle(ip)>> \o AlternateTitles(ip)

\* spawn_connection after Popen: the ConnectionInfo, whose status is 'running'
\* from its construction, is registered, and monitor_connection is started
SpawnTracked(t) ==
    /\ Track(t)
    /\ conn_status' = [conn_status EXCEPT ![loc[t].pid] = "running"]
    /\ mon_pc' = [mon_pc EXCEPT ![loc[t].pid] = "sleep"]
    /\ mon_loc' = [mon_loc EXCEPT ![loc[t].pid] = [MonLocals0 EXCEPT !.ip = loc[t].ip]]
    /\ UNCHANGED outside_gui

\* after sleep(3): poll_result = process.poll(); an exit is logged with the
\* output of the process, a running process is logged as running
MonitorPoll(p) ==
    /\ mon_pc[p] = "sleep"
    /\ mon_pc' = [mon_pc EXCEPT ![p] = "recheck"]
    /\ mon_loc' = [mon_loc EXCEPT ![p].poll_result = Poll(p)]
    /\ Quiet
    /\ UNCHANGED conn_status
    /\ UNCHANGED <<conn_vars, outside_gui>>

\* "Position window if process is still running": the second poll
MonitorRecheck(p) ==
    /\ mon_pc[p] = "recheck"
    /\ mon_pc' = [mon_pc EXCEPT ![p] = IF Poll(p) = "none" THEN "place" ELSE "done"]
    /\ mon_loc' = [mon_loc EXCEPT ![p].polled = Poll(p), ![p].i = 1]
    /\ Quiet
    /\ UNCHANGED conn_status
    /\ UNCHANGED <<conn_vars, outside_gui>>

\* a faulty loop over the titles, without its break
TryEveryTitle(success, i) == IF i < 5 THEN "place" ELSE "done"

\* after position_window of title i: done at the first success and after the
\* last title
AfterPlacement(success, i) == IF ~success /\ i < 5 THEN "place" ELSE "done"

\* success = self.hyprland.position_window(title, ...), by its result
MonitorPlace(p) ==
    /\ mon_pc[p] = "place"
    /\ \E success \in BOOLEAN :
          /\ mon_pc' = [mon_pc EXCEPT ![p] = AfterPlacement(success, mon_loc[p].i)]
          /\ mon_loc' = [mon_loc EXCEPT
                           ![p].tried = Append(@, PlacementTitles(mon_loc[p].ip)[mon_loc[p].i]),
                           ![p].results = Append(@, success),
                           ![p].i = @ + 1]
    /\ Quiet
    /\ UNCHANGED conn_status
    /\ UNCHANGED <<conn_vars, outside_gui>>

\* no spawn yet
MonInit ==
    /\ conn_status = [p \in Pid |-> ""]
    /\ mon_pc = [p \in Pid |-> "off"]
    /\ mon_loc = [p \in Pid |-> MonLocals0]

----------------------------------------------------------------------------
(* nz7dev_rdp_simple.py: ConnectionManager and its connection_lock *)

\* two request threads and the cleanup thread; what the registry holds is
\* left open here, every outcome of a lookup and of a process can occur
LockThreads == {"r1", "r2", "cleaner"}

NoHolder == "nobody"

\* the statements a thread is at, and what each of them does
Work(label) ==
    CASE label \in {"c_lookup", "d_lookup", "c_register", "d_del", "l_copy", "sweep"}
              -> "registry"
      [] label = "c_popen" -> "spawn"
      [] label \in {"c_sleep", "sleep30"} -> "sleep"
      [] label = "c_poll" -> "poll"
      [] label \in {"d_terminate", "d_kill"} -> "signal"
      [] label \in {"d_wait", "d_wait2"} -> "wait"
      [] OTHER -> "none"

\* a faulty connect_rdp, all of it inside "with self.connection_lock"
WithinWholeConnect(label) ==
    label \in {"c_lookup", "d_lookup", "c_popen", "c_sleep", "c_poll", "c_register",
               "d_del", "l_copy", "sweep"}

\* the statements inside "with self.connection_lock": get_connection_by_ip,
\* the registration, the del of disconnect, get_active_connections, and the
\* body of _cleanup_dead_connections
Within(label) ==
    label \in {"c_lookup", "d_lookup", "c_register", "d_del", "l_copy", "sweep"}

\* the thread may take the step at its statement: it holds the lock if the
\* statement is inside a with block
MayStep(t, label) ==
    /\ lock_pc[t] = label
    /\ Within(label) => connection_lock = t

\* the thread goes on to the statement next; the with block it was in ends
\* unless the next statement is inside it too
LockGoto(t, next) ==
    /\ lock_pc' = [lock_pc EXCEPT ![t] = next]
    /\ connection_lock' =
          IF connection_lock = t /\ ~Within(next) THEN NoHolder ELSE connection_lock
    /\ Quiet

\* "with self.connection_lock": the lock is taken when it is free
LockAcquire(t) ==
    /\ Within(lock_pc[t])
    /\ connection_lock = NoHolder
    /\ connection_lock' = t
    /\ Quiet
    /\ UNCHANGED <<lock_pc, lock_m>>
    /\ UNCHANGED outside_lock

\* a request arrives: connect, disconnect, or get_active_connections
LockCall(t, first) ==
    /\ t # "cleaner"
    /\ lock_pc[t] = "idle"
    /\ LockGoto(t, first)
    /\ lock_m' = [lock_m EXCEPT ![t] = 1]
    /\ UNCHANGED outside_lock

\* connect: existing = get_connection_by_ip(ip); rejected, or on to connect_rdp
LockLookup(t) ==
    /\ MayStep(t, "c_lookup")
    /\ \E existing \in BOOLEAN : LockGoto(t, IF existing THEN "idle" ELSE "c_popen")
    /\ UNCHANGED lock_m
    /\ UNCHANGED outside_lock

\* connect_rdp: after a variant that failed, the next one or the failure
LockNextMethod(t) ==
    IF lock_m[t] < RdpMethods
    THEN LockGoto(t, "c_popen") /\ lock_m' = [lock_m EXCEPT ![t] = @ + 1]
    ELSE LockGoto(t, "idle") /\ UNCHANGED lock_m

\* connect_rdp: subprocess.Popen starts the client or raises
LockPopen(t) ==
    /\ MayStep(t, "c_popen")
    /\ \/ LockGoto(t, "c_sleep") /\ UNCHANGED lock_m
       \/ LockNextMethod(t)
    /\ UNCHANGED outside_lock

\* connect_rdp: time.sleep(2)
LockSleep(t) ==
    /\ MayStep(t, "c_sleep")
    /\ LockGoto(t, "c_poll")
    /\ UNCHANGED lock_m
    /\ UNCHANGED outside_lock

\* connect_rdp: process.poll(): running, or exited
LockPoll(t) ==
    /\ MayStep(t, "c_poll")
    /\ \/ LockGoto(t, "c_register") /\ UNCHANGED lock_m
       \/ LockNextMethod(t)
    /\ UNCHANGED outside_lock

\* connect_rdp: self.active_connections[connection_id] = connection
LockRegister(t) ==
    /\ MayStep(t, "c_register")
    /\ LockGoto(t, "idle")
    /\ UNCHANGED lock_m
    /\ UNCHANGED outside_lock

\* disconnect: connection = get_connection_by_ip(ip); not found, or on
LockFind(t) ==
    /\ MayStep(t, "d_lookup")
    /\ \E found \in BOOLEAN : LockGoto(t, IF found THEN "d_terminate" ELSE "idle")
    /\ UNCHANGED lock_m
    /\ UNCHANGED outside_lock

\* disconnect: process.terminate()
LockTerminate(t) ==
    /\ MayStep(t, "d_terminate")
    /\ LockGoto(t, "d_wait")
    /\ UNCHANGED lock_m
    /\ UNCHANGED outside_lock

\* disconnect: process.wait(timeout=5) returns, or TimeoutExpired
LockWait(t) ==
    /\ MayStep(t, "d_wait")
    /\ \E exited \in BOOLEAN : LockGoto(t, IF exited THEN "d_del" ELSE "d_kill")
    /\ UNCHANGED lock_m
    /\ UNCHANGED outside_lock

\* disconnect: process.kill()
LockKill(t) ==
    /\ MayStep(t, "d_kill")
    /\ LockGoto(t, "d_wait2")
    /\ UNCHANGED lock_m
    /\ UNCHANGED outside_lock

\* disconnect: process.wait(timeout=2), whose TimeoutExpired is passed over
LockWaitKilled(t) ==
    /\ MayStep(t, "d_wait2")
    /\ LockGoto(t, "d_del")
    /\ UNCHANGED lock_m
    /\ UNCHANGED outside_lock

\* disconnect: del self.active_connections[connection.connection_id]
LockDel(t) ==
    /\ MayStep(t, "d_del")
    /\ LockGoto(t, "idle")
    /\ UNCHANGED lock_m
    /\ UNCHANGED outside_lock

\* get_active_connections: return self.active_connections.copy()
LockCopy(t) ==
    /\ MayStep(t, "l_copy")
    /\ LockGoto(t, "idle")
    /\ UNCHANGED lock_m
    /\ UNCHANGED outside_lock

\* _cleanup_dead_connections: the polls and the dels, then time.sleep(30)
LockSweep ==
    /\ MayStep("cleaner", "sweep")
    /\ LockGoto("cleaner", "sleep30")
    /\ UNCHANGED lock_m
    /\ UNCHANGED outside_lock

\* cleanup_loop: time.sleep(30) ends
LockWake ==
    /\ MayStep("cleaner", "sleep30")
    /\ LockGoto("cleaner", "sweep")
    /\ UNCHANGED lock_m
    /\ UNCHANGED outside_lock

LockInit ==
    /\ connection_lock = NoHolder
    /\ lock_pc = [t \in LockThreads |-> IF t = "cleaner" THEN "sweep" ELSE "idle"]
    /\ lock_m = [t \in LockThreads |-> 1]

----------------------------------------------------------------------------
(* nz7dev_rdp_simple.py: MachineScanner *)

\* the addresses scanned: h1 has a name, the name of h2 cannot be resolved
Hosts == {"h1", "h2"}

\* the ports of RDP, VNC and SSH
ServicePorts == {3389, 5900, 22}

\* the services a host can run: any of them on h1, SSH alone on h2
HostPorts(ip) == IF ip = "h1" THEN ServicePorts ELSE {22}

\* check_port(ip, port): connect_ex gives 0 on an open port only; a timeout
\* or an exception gives False on any port
CheckResults(ip, port) == IF port \in open_ports[ip] THEN {TRUE, FALSE} ELSE {FALSE}

\* get_hostname(ip): the name, or "Unknown-" and the last octet
get_hostname(ip) == IF ip = "h1" THEN <<"name of ", ip>> ELSE <<"Unknown-", ip>>

\* detect_os_type(ip, rdp_enabled, vnc_enabled, ssh_enabled)
detect_os_type(rdp_enabled, vnc_enabled, ssh_enabled) ==
    IF rdp_enabled /\ ssh_enabled THEN "Windows/WSL"
    ELSE IF rdp_enabled THEN "Windows"
    ELSE IF vnc_enabled /\ ssh_enabled THEN "Ubuntu Desktop"
    ELSE IF ssh_enabled THEN "Linux Server"
    ELSE IF vnc_enabled THEN "Linux/VNC"
    ELSE "Unknown"

Machine(ip, online, rdp_enabled, vnc_enabled, ssh_enabled) ==
    [ip |-> ip, hostname |-> get_hostname(ip),
     os_version |-> detect_os_type(rdp_enabled, vnc_enabled, ssh_enabled),
     online |-> online, rdp_enabled |-> rdp_enabled, vnc_enabled |-> vnc_enabled,
     ssh_enabled |-> ssh_enabled]

\* a faulty scan_single_host, without "if not rdp_enabled and not vnc_enabled
\* and not ssh_enabled: return None"
ScanKeepsEveryHost(ip, rdp_enabled, vnc_enabled, ssh_enabled, ping) ==
    IF ping = "oserror" THEN None
    ELSE Some(Machine(ip, ping = "alive" \/ rdp_enabled \/ vnc_enabled \/ ssh_enabled,
                      rdp_enabled, vnc_enabled, ssh_enabled))

\* scan_single_host(ip), from the results of its three port checks and the
\* outcome of ping: None without a service; the OSError of ping_host is
\* caught and gives None; a host with a service is online whatever ping says
scan_single_host(ip, rdp_enabled, vnc_enabled, ssh_enabled, ping) ==
    IF ~rdp_enabled /\ ~vnc_enabled /\ ~ssh_enabled THEN None
    ELSE IF ping = "oserror" THEN None
    ELSE Some(Machine(ip, TRUE, rdp_enabled, vnc_enabled, ssh_enabled))

\* the results scan_single_host(ip) can have now
ScanResults(ip) ==
    {scan_single_host(ip, rdp, vnc, ssh, ping) :
        rdp \in CheckResults(ip, 3389), vnc \in CheckResults(ip, 5900),
        ssh \in CheckResults(ip, 22), ping \in PingOutcomes}

ScanReturn(op, ip, result) ==
    event' = [type |-> "return", op |-> op, ip |-> ip, ret |-> result,
              open |-> IF ip \in Hosts THEN open_ports[ip] ELSE {}]

\* scan_single_host(ip), called by itself
ScanSingleHost(ip) ==
    /\ \E result \in ScanResults(ip) : ScanReturn("scan_single_host", ip, result)
    /\ UNCHANGED <<open_ports, machines, scan_pc, scan_todo, discovered_machines>>
    /\ UNCHANGED outside_scan

\* scan_network(): discovered_machines = {}, one task per address
ScanNetwork ==
    /\ scan_pc = "idle"
    /\ scan_pc' = "collect"
    /\ scan_todo' = Hosts
    /\ discovered_machines' = <<>>
    /\ Quiet
    /\ UNCHANGED <<open_ports, machines>>
    /\ UNCHANGED outside_scan

\* discovered_machines[machine.ip] = machine
Discover(map, machine) ==
    [k \in DOMAIN map \cup {machine.ip} |-> IF k = machine.ip THEN machine ELSE map[k]]

\* scan_network: a task completes, in any order; its machine is kept if it has
\* a service
Collect(ip) ==
    /\ scan_pc = "collect"
    /\ ip \in scan_todo
    /\ scan_todo' = scan_todo \ {ip}
    /\ \E result \in ScanResults(ip) :
          discovered_machines' =
             IF result # None /\ (The(result).rdp_enabled \/ The(result).vnc_enabled
                                  \/ The(result).ssh_enabled)
             THEN Discover(discovered_machines, The(result))
             ELSE discovered_machines
    /\ scan_pc' = IF scan_todo' = {} THEN "store" ELSE "collect"
    /\ Quiet
    /\ UNCHANGED <<open_ports, machines>>
    /\ UNCHANGED outside_scan

\* scan_network: under scan_lock, machines.clear() and
\* machines.update(discovered_machines); the copy is returned
ScanStore ==
    /\ scan_pc = "store"
    /\ machines' = discovered_machines
    /\ scan_pc' = "idle"
    /\ ScanReturn("scan_network", "", Some(discovered_machines))
    /\ UNCHANGED <<open_ports, scan_todo, discovered_machines>>
    /\ UNCHANGED outside_scan

\* a service of a host starts or stops listening
PortChange ==
    /\ \E ip \in Hosts : \E port \in HostPorts(ip) :
          open_ports' = [open_ports EXCEPT ![ip] =
                            IF port \in @ THEN @ \ {port} ELSE @ \cup {port}]
    /\ Quiet
    /\ UNCHANGED <<machines, scan_pc, scan_todo, discovered_machines>>
    /\ UNCHANGED outside_scan

\* no scan yet, no service anywhere
ScanInit ==
    /\ open_ports = [ip \in Hosts |-> {}]
    /\ machines = <<>>
    /\ scan_pc = "idle"
    /\ scan_todo = {}
    /\ discovered_machines = <<>>

----------------------------------------------------------------------------
(* nz7dev_gui.py: MissionControl._monitor_status, the status broadcaster *)

\* a start_monitoring after a stop_monitoring starts another thread
Broadcasters == 1..MaxBroadcasters

\* max_errors = 5
max_errors == 5

BcLocals0 ==
    [consecutive_errors |-> 0, sleep_time |-> 0, last |-> "", streak |-> 0,
     left_running |-> FALSE, clients |-> 0]

\* a faulty interval, which grows with the clients
SleepGrows(clients) ==
    IF 3 + clients < 8 THEN 3 + clients ELSE 8

\* sleep_time = max(3, 8 - connected_clients)
SleepTime(clients) ==
    IF 8 - clients > 3 THEN 8 - clients ELSE 3

\* start_monitoring(): if not self.running, the flag is set and a thread started
StartMonitoring ==
    /\ ~running
    /\ \E b \in Broadcasters :
          /\ bc_pc[b] = "off"
          /\ \A c \in Broadcasters : c < b => bc_pc[c] # "off"
          /\ bc_pc' = [bc_pc EXCEPT ![b] = "test"]
    /\ running' = TRUE
    /\ Quiet
    /\ UNCHANGED <<bc_loc, connected_clients>>
    /\ UNCHANGED outside_bc

\* stop_monitoring()
StopMonitoring ==
    /\ running' = FALSE
    /\ Quiet
    /\ UNCHANGED <<bc_pc, bc_loc, connected_clients>>
    /\ UNCHANGED outside_bc

\* "while self.running": on to the body, or out of the loop
LoopTest(b) ==
    /\ bc_pc[b] = "test"
    /\ bc_pc' = [bc_pc EXCEPT ![b] = IF running THEN "body" ELSE "stopped"]
    /\ bc_loc' = [bc_loc EXCEPT ![b].left_running = running]
    /\ Quiet
    /\ UNCHANGED <<running, connected_clients>>
    /\ UNCHANGED outside_bc

\* a faulty success, which keeps the count of errors
SuccessKeepsCount(r) ==
    [r EXCEPT !.sleep_time = SleepTime(connected_clients),
              !.clients = connected_clients, !.last = "ok", !.streak = 0]

\* the body ran to its end: consecutive_errors = 0 and the adaptive sleep
BodySucceeds(r) ==
    [r EXCEPT !.consecutive_errors = 0,
              !.sleep_time = SleepTime(connected_clients),
              !.clients = connected_clients, !.last = "ok", !.streak = 0]

\* cleanup_cache, get_fleet_status or emit raised: the count goes up; at
\* max_errors the sleep is 30 s and the count starts again, else 10 s.
\* streak counts the failed iterations in a row, up to the long sleep
BodyFails(r) ==
    LET n == r.consecutive_errors + 1
        k == IF r.streak = max_errors THEN 1 ELSE r.streak + 1
    IN  IF n >= max_errors
        THEN [r EXCEPT !.consecutive_errors = 0, !.sleep_time = 30,
                       !.last = "failed", !.streak = k]
        ELSE [r EXCEPT !.consecutive_errors = n, !.sleep_time = 10,
                       !.last = "failed", !.streak = k]

\* one iteration of the loop, up to its sleep
Iterate(b) ==
    /\ bc_pc[b] = "body"
    /\ bc_pc' = [bc_pc EXCEPT ![b] = "sleep"]
    /\ \/ bc_loc' = [bc_loc EXCEPT ![b] = BodySucceeds(@)]
       \/ bc_loc' = [bc_loc EXCEPT ![b] = BodyFails(@)]
    /\ Quiet
    /\ UNCHANGED <<running, connected_clients>>
    /\ UNCHANGED outside_bc

\* time.sleep ends
BcWake(b) ==
    /\ bc_pc[b] = "sleep"
    /\ bc_pc' = [bc_pc EXCEPT ![b] = "test"]
    /\ Quiet
    /\ UNCHANGED <<running, bc_loc, connected_clients>>
    /\ UNCHANGED outside_bc

\* a subscriber connects or disconnects
ClientChange ==
    /\ \E n \in {connected_clients - 1, connected_clients + 1} :
          /\ n \in 0..MaxClients
          /\ connected_clients' = n
    /\ Quiet
    /\ UNCHANGED <<running, bc_pc, bc_loc>>
    /\ UNCHANGED outside_bc

BcInit ==
    /\ running = FALSE
    /\ bc_pc = [b \in Broadcasters |-> "off"]
    /\ bc_loc = [b \in Broadcasters |-> BcLocals0]
    /\ connected_clients = 0

----------------------------------------------------------------------------
(* nz7dev_gui.py: ConfigManager, the fleet configuration *)

\* the fields of VMConfig an update may name
VMConfigFields == {"ip", "workspace", "position"}

\* an address is the sequence of its dot-separated parts; a part of digits is
\* its number, any other part is NotDigits
NotDigits == -1

\* VMConfig._is_valid_ip: four parts, each of digits and at most 255
_is_valid_ip(ip) ==
    /\ Len(ip) = 4
    /\ \A i \in 1..Len(ip) : ip[i] # NotDigits /\ 0 <= ip[i] /\ ip[i] <= 255

\* VMConfig.__post_init__ raises nothing
ValidConfig(c) ==
    /\ c.ip # <<>> /\ _is_valid_ip(c.ip)
    /\ c.workspace >= 1 /\ c.workspace <= 10
    /\ c.position \in {"left", "center", "right"}

\* default_config of _load_fleet_config, which every branch returns; vm20
\* and vm21 stand for its six machines
default_config ==
    [vm \in {"vm20", "vm21"} |->
        IF vm = "vm20"
        THEN [ip |-> <<192, 168, 1, 20>>, workspace |-> 4, position |-> "left"]
        ELSE [ip |-> <<192, 168, 1, 21>>, workspace |-> 2, position |-> "left"]]

VmNames == DOMAIN default_config \cup {"vm99"}

UpdateInputs ==
    {[workspace |-> 5], [workspace |-> 11], [position |-> "right"],
     [position |-> "top"], [workspace |-> 0], [ip |-> <<10, 0, 0, 5>>],
     [ip |-> <<10, 0, 0, 256>>], [ip |-> <<10, 0, 5>>], [ip |-> <<10, 0, NotDigits, 5>>],
     [ip |-> <<>>], [bogus |-> 1]}

\* current.update(updates)
Updated(current, updates) ==
    [f \in DOMAIN current \cup DOMAIN updates |->
        IF f \in DOMAIN updates THEN updates[f] ELSE current[f]]

\* self._fleet_config[vm_name] = ...
ConfigPut(config, vm_name, c) ==
    [vm \in DOMAIN config \cup {vm_name} |-> IF vm = vm_name THEN c ELSE config[vm]]

\* a faulty update, which takes an unknown machine as a new one
UpdateAddsUnknown(config, vm_name, updates) ==
    LET current == IF vm_name \in DOMAIN config THEN Updated(config[vm_name], updates)
                   ELSE Updated(config["vm20"], updates)
    IN  IF DOMAIN current \subseteq VMConfigFields /\ ValidConfig(current)
        THEN [config |-> ConfigPut(config, vm_name, current), saves |-> TRUE]
        ELSE [config |-> config, saves |-> FALSE]

\* a faulty update, which stores what VMConfig would reject
UpdateUnvalidated(config, vm_name, updates) ==
    IF vm_name \notin DOMAIN config
    THEN [config |-> config, saves |-> FALSE]
    ELSE LET current == Updated(config[vm_name], updates)
         IN  IF DOMAIN current \subseteq VMConfigFields
             THEN [config |-> ConfigPut(config, vm_name, current), saves |-> TRUE]
             ELSE [config |-> config, saves |-> FALSE]

\* update_vm_config up to its save: the configuration it leaves, and whether
\* save_config is reached. VMConfig(**current) raises on a field it does not
\* have and on a value __post_init__ rejects
update_vm_config(config, vm_name, updates) ==
    IF vm_name \notin DOMAIN config
    THEN [config |-> config, saves |-> FALSE]
    ELSE LET current == Updated(config[vm_name], updates)
         IN  IF DOMAIN current \subseteq VMConfigFields /\ ValidConfig(current)
             THEN [config |-> ConfigPut(config, vm_name, current), saves |-> TRUE]
             ELSE [config |-> config, saves |-> FALSE]

\* update_vm_config(vm_name, updates), with save_config writing the file or
\* failing to
UpdateVmConfig(vm_name, updates) ==
    LET r == update_vm_config(fleet_config, vm_name, updates)
    IN  /\ fleet_config' = r.config
        /\ \E written \in BOOLEAN :
              /\ config_file' = IF r.saves /\ written THEN Some(r.config) ELSE config_file
              /\ event' = [type |-> "return", op |-> "update_vm_config",
                           vm_name |-> vm_name, updates |-> updates,
                           ret |-> r.saves /\ written]
        /\ UNCHANGED outside_config

\* the fleet_config property
GetFleetConfig ==
    /\ event' = [type |-> "return", op |-> "fleet_config", names |-> DOMAIN fleet_config]
    /\ UNCHANGED <<fleet_config, config_file>>
    /\ UNCHANGED outside_config

\* ConfigManager(): the file, present or not, leaves default_config
ConfigInit ==
    /\ fleet_config = default_config
    /\ config_file = None

----------------------------------------------------------------------------
(* The HTTP routes that take a JSON body *)

\* the request thread that serves the routes
ApiReq == {"r1"}

\* what request.get_json() gives: null, or an object, an array or a string;
\* members are the names `in` finds in it: the keys of the object, the
\* elements of the array, the names written in the string
JsonBodies ==
    {[kind |-> k, members |-> m] :
        k \in {"object", "array", "string"}, m \in SUBSET {"ip", "connection_type"}}
    \cup {[kind |-> "null", members |-> {}]}

\* "not data" is false
Truthy(data) == data.members # {}

\* field in data
In(field, data) == field \in data.members

\* the object has the field
HasField(data, field) == data.kind = "object" /\ field \in data.members

\* the answer of a route that did not hand the request on
ApiResponse(route, data, status, structured, handler) ==
    event' = [type |-> "response", route |-> route, data |-> data, status |-> status,
              structured |-> structured, handler |-> handler]

\* the connection types a body may name; without one, data.get gives "rdp"
ConnectionTypes(data) == IF In("connection_type", data) THEN KindInputs ELSE {"rdp"}

\* api_connect: 400 without a body or without 'ip' in it; data['ip'] of a
\* body that is no object raises, which flask answers with its 500 page; else
\* connection_manager.connect
ApiConnect(t, data) ==
    IF ~Truthy(data) \/ ~In("ip", data)
    THEN /\ app = "simple" /\ pc[t] = "idle"
         /\ ApiResponse("/api/connect", data, 400, TRUE, FALSE)
         /\ UNCHANGED conn_vars
         /\ UNCHANGED outside_conn
    ELSE IF data.kind # "object"
    THEN /\ app = "simple" /\ pc[t] = "idle"
         /\ ApiResponse("/api/connect", data, 500, FALSE, FALSE)
         /\ UNCHANGED conn_vars
         /\ UNCHANGED outside_conn
    ELSE \E ip \in IPs : \E kind \in ConnectionTypes(data) : Connect(t, ip, kind)

\* api_disconnect: the same test, then connection_manager.disconnect
ApiDisconnect(t, data) ==
    IF ~Truthy(data) \/ ~In("ip", data)
    THEN /\ app = "simple" /\ pc[t] = "idle"
         /\ ApiResponse("/api/disconnect", data, 400, TRUE, FALSE)
         /\ UNCHANGED conn_vars
         /\ UNCHANGED outside_conn
    ELSE IF data.kind # "object"
    THEN /\ app = "simple" /\ pc[t] = "idle"
         /\ ApiResponse("/api/disconnect", data, 500, FALSE, FALSE)
         /\ UNCHANGED conn_vars
         /\ UNCHANGED outside_conn
    ELSE \E ip \in IPs : Disconnect(t, ip)

\* validate_json(*required_fields) lets the request through to the handler
validate_json(required_fields, is_json, data) ==
    /\ is_json
    /\ Truthy(data)
    /\ {field \in required_fields : ~In(field, data)} = {}

\* api_spawn_rdp under validate_json('ip'): 400 from the decorator; else the
\* handler and spawn_connection, where params['ip'] of a body that is no
\* object raises into the failure result, answered with 400
ApiSpawnRdp(t, is_json, data) ==
    IF ~validate_json({"ip"}, is_json, data)
    THEN /\ app = "gui" /\ pc[t] = "idle"
         /\ ApiResponse("/api/rdp/spawn", data, 400, TRUE, FALSE)
         /\ UNCHANGED conn_vars
         /\ UNCHANGED outside_conn
    ELSE IF data.kind # "object"
    THEN /\ app = "gui" /\ pc[t] = "idle"
         /\ ApiResponse("/api/rdp/spawn", data, 400, TRUE, TRUE)
         /\ UNCHANGED conn_vars
         /\ UNCHANGED outside_conn
    ELSE \E ip \in IPs : Spawn(t, ip)

----------------------------------------------------------------------------
(* nz7dev_gui.py: get_fleet_status over the caches of its probes *)

clients_cache_duration == 2     \* HyprlandManager._cache_duration = timedelta(seconds=2)

\* a probe result carries the second it was taken at and the number of fleet
\* commands that had completed by then
Probed == [at |-> fs_clock, after |-> fs_commands]

\* ping_target: the cached result if younger than cache_duration, else a ping
PingFresh(cache) == cache = None \/ ~(fs_clock - The(cache).at < cache_duration)

ping_target(cache) == IF PingFresh(cache) THEN Probed ELSE The(cache)

\* get_clients: hyprctl again if the cache is older than its duration
ClientsFresh(cache) == cache = None \/ fs_clock - The(cache).at > clients_cache_duration

get_clients(cache) == IF ClientsFresh(cache) THEN Probed ELSE The(cache)

\* get_fleet_status: the cached status if recent; else ping_multiple and
\* check_window_exists, each through its own cache, and the new status cached
FsGetFleetStatus ==
    IF StatusCacheHit(fs_status, fs_updated, fs_clock)
    THEN /\ event' = [type |-> "return", op |-> "get_fleet_status",
                      ret |-> The(fs_status), recomputed |-> FALSE]
         /\ UNCHANGED fs_vars
         /\ UNCHANGED outside_fs
    ELSE LET status == [online |-> ping_target(fs_ping), window_active |-> get_clients(fs_clients)]
         IN  /\ fs_ping' = Some(status.online)
             /\ fs_clients' = Some(status.window_active)
             /\ fs_status' = Some(status)
             /\ fs_updated' = Some(fs_clock)
             /\ event' = [type |-> "return", op |-> "get_fleet_status",
                          ret |-> status, recomputed |-> TRUE]
             /\ UNCHANGED <<fs_clock, fs_commands>>
             /\ UNCHANGED outside_fs

\* execute_script_command with a valid command whose script exits with 0:
\* the status cache is dropped, the caches of the probes are not touched
FsCommandSucceeds ==
    /\ fs_commands < MaxCommands
    /\ fs_commands' = fs_commands + 1
    /\ fs_status' = None
    /\ fs_updated' = None
    /\ event' = [type |-> "return", op |-> "execute_script_command", ret |-> Probed,
                 recomputed |-> FALSE]
    /\ UNCHANGED <<fs_clock, fs_ping, fs_clients>>
    /\ UNCHANGED outside_fs

FsTick ==
    /\ fs_clock < MaxSnapshotClock
    /\ fs_clock' = fs_clock + 1
    /\ Quiet
    /\ UNCHANGED <<fs_commands, fs_ping, fs_clients, fs_status, fs_updated>>
    /\ UNCHANGED outside_fs

FsInit ==
    /\ fs_clock = 0
    /\ fs_commands = 0
    /\ fs_ping = None
    /\ fs_clients = None
    /\ fs_status = None
    /\ fs_updated = None

----------------------------------------------------------------------------
(* nz7dev_gui.py: the routes and the spawn that place a window on a workspace *)

\* the workspaces a request may name
WorkspaceInputs == {0, 1, 11}

\* an assignment as the request gives it, with what the window manager will
\* answer for it: window, whether check_window_exists finds the window;
\* placed, whether every dispatch command exits with 0
Assignments ==
    {a \in [vm_ip : {None, Some("ip1")}, workspace : WorkspaceInputs,
            use_scratchpad : BOOLEAN, window : BOOLEAN, placed : BOOLEAN] :
        a.placed => a.window}

\* the numbered workspaces of the movetoworkspacesilent commands issued by
\* position_window (which finds the window or returns False before any command)
\* and by assign_to_scratchpad (which moves to "special")
Moves(a) == IF a.window /\ ~a.use_scratchpad THEN {a.workspace} ELSE {}

\* assign_vm_to_workspace under validate_json: the workspace is validated,
\* the window looked for, the window placed
AssignVm(a) ==
    /\ a.vm_ip # None
    /\ IF ~a.use_scratchpad /\ (a.workspace < 1 \/ a.workspace > 10)
       THEN /\ event' = [type |-> "response", route |-> "/api/workspaces/assign",
                         status |-> 400, assignments |-> <<a>>, results |-> <<>>]
            /\ UNCHANGED wm_moves
       ELSE IF ~a.window
       THEN /\ event' = [type |-> "response", route |-> "/api/workspaces/assign",
                         status |-> 404, assignments |-> <<a>>, results |-> <<>>]
            /\ UNCHANGED wm_moves
       ELSE /\ event' = [type |-> "response", route |-> "/api/workspaces/assign",
                         status |-> IF a.placed THEN 200 ELSE 500,
                         assignments |-> <<a>>, results |-> <<>>]
            /\ wm_moves' = wm_moves \cup Moves(a)
    /\ UNCHANGED outside_assign

\* the result batch_assign_vms appends for an assignment
BatchResult(a) ==
    [vm_ip |-> The(a.vm_ip), success |-> a.window /\ a.placed]

\* the first assignment without 'vm_ip', or 0: assignment['vm_ip'] is read
\* before the try of the loop body, its KeyError ends the loop
FirstMalformed(assignments) ==
    IF \E i \in 1..Len(assignments) : assignments[i].vm_ip = None
    THEN CHOOSE i \in 1..Len(assignments) :
            /\ assignments[i].vm_ip = None
            /\ \A j \in 1..(i - 1) : assignments[j].vm_ip # None
    ELSE 0

\* the number of assignments the loop of batch_assign_vms works through
Processed(assignments) ==
    IF FirstMalformed(assignments) = 0 THEN Len(assignments)
    ELSE FirstMalformed(assignments) - 1

\* batch_assign_vms: every assignment in turn, no validation of the
\* workspace; the outer handler answers 500 without results
BatchAssign(assignments) ==
    LET n == Processed(assignments)
    IN  /\ wm_moves' = wm_moves \cup UNION {Moves(assignments[i]) : i \in 1..n}
        /\ IF n = Len(assignments)
           THEN event' = [type |-> "response", route |-> "/api/workspaces/batch-assign",
                          status |-> 200, assignments |-> assignments,
                          results |-> [i \in 1..n |-> BatchResult(assignments[i])]]
           ELSE event' = [type |-> "response", route |-> "/api/workspaces/batch-assign",
                          status |-> 500, assignments |-> assignments, results |-> <<>>]
        /\ UNCHANGED outside_assign

\* spawn_connection with params['workspace'], taken as it comes, and the
\* placement of monitor_connection once the client runs
SpawnPlacement(a) ==
    /\ a.vm_ip # None /\ ~a.use_scratchpad
    /\ wm_moves' = wm_moves \cup Moves(a)
    /\ event' = [type |-> "response", route |-> "/api/rdp/spawn", status |-> 200,
                 assignments |-> <<a>>, results |-> <<>>]
    /\ UNCHANGED outside_assign

AssignInit == wm_moves = {}

----------------------------------------------------------------------------
(* nz7dev_gui.py: window_active of get_fleet_status *)

\* the decimal digits of a number, as str() writes them
Digits == <<"0", "1", "2", "3", "4", "5", "6", "7", "8", "9">>

RECURSIVE Decimal(_)
Decimal(n) ==
    IF n < 10 THEN <<Digits[n + 1]>>
    ELSE Decimal(n \div 10) \o <<Digits[(n % 10) + 1]>>

\* config.ip as text, character by character
IpText(ip) ==
    Decimal(ip[1]) \o <<".">> \o Decimal(ip[2]) \o <<".">> \o Decimal(ip[3])
        \o <<".">> \o Decimal(ip[4])

\* f"FreeRDP: {config.ip}", the title xfreerdp gives the window of the address
FleetTitle(ip) == <<"FreeRDP: ">> \o IpText(ip)

\* the addresses given to the machines
AddressInputs == {<<192, 168, 1, 2>>, <<192, 168, 1, 20>>, <<192, 168, 1, 21>>}

\* check_window_exists(window_title): any title starts with window_title
check_window_exists(titles, window_title) ==
    \E title \in titles : StartsWith(title, window_title)

\* the window_active flags get_fleet_status computes, machine by machine
FleetWindowActive ==
    /\ event' = [type |-> "return", op |-> "window_active",
                 ret |-> [vm \in DOMAIN fleet_config |->
                            check_window_exists(hypr_windows,
                                                FleetTitle(fleet_config[vm].ip))]]
    /\ UNCHANGED hypr_vars
    /\ UNCHANGED outside_hypr

\* the window of a client for an address opens or closes
FleetWindowChange ==
    /\ \E ip \in AddressInputs :
          LET w == FleetTitle(ip)
          IN  hypr_windows' = IF w \in hypr_windows THEN hypr_windows \ {w}
                                                    ELSE hypr_windows \cup {w}
    /\ Quiet
    /\ UNCHANGED <<clients_cache, clients_stamped, hypr_pc, hypr_loc>>
    /\ UNCHANGED outside_hypr

----------------------------------------------------------------------------
(* The programs *)

PingInit ==
    /\ ping_cache = <<>>
    /\ ping_stored = <<>>
    /\ ping_clock = 0
    /\ ping_pc = "idle"
    /\ ping_loc = PingLocals0

ConnInit(a) ==
    /\ app = a
    /\ active_connections = <<>>
    /\ proc = [p \in Pid |-> "free"]
    /\ now = 0
    /\ event = NoEvent
    /\ pc = [t \in Threads |->
                IF t # Cleaner THEN "idle" ELSE IF a = "simple" THEN "sweep" ELSE "scan"]
    /\ loc = [t \in Threads |->
                IF t = Cleaner THEN [Locals0 EXCEPT !.op = "cleanup"] ELSE Locals0]

\* the components that a specification leaves at rest
Idle == FleetInit /\ HyprInit /\ MonInit /\ LockInit /\ ScanInit /\ BcInit /\ ConfigInit /\ FsInit /\ AssignInit

AtRest == Idle /\ GeoInit /\ PresetRest

Init == (ConnInit("simple") \/ ConnInit("gui")) /\ PingInit /\ AtRest

\* the steps of the cleanup thread
CleanerNext ==
    \/ Wake(Cleaner)
    \/ Sweep(Cleaner)
    \/ Scan(Cleaner)
    \/ Purge(Cleaner)

Next ==
    \/ ProcExit
    \/ Tick
    \/ \E t \in Req : \E ip \in IPs : \E kind \in KindInputs : Connect(t, ip, kind)
    \/ \E t \in Req : \E ip \in IPs : Disconnect(t, ip)
    \/ \E t \in Req : List(t)
    \/ \E t \in Req : RdpPopen(t)
    \/ \E t \in Req : RdpPoll(t)
    \/ \E t \in Req : Register(t)
    \/ \E t \in Req : Terminate(t)
    \/ \E t \in Req : WaitExited(t)
    \/ \E t \in Req : WaitTimeout(t)
    \/ \E t \in Req : Kill(t)
    \/ \E t \in Req : Remove(t)
    \/ \E t \in GuiReq : \E ip \in IPs : Spawn(t, ip)
    \/ \E t \in GuiReq : SpawnRegister(t)
    \/ \E t \in GuiReq : \E id \in AllIds : KillConnection(t, id)
    \/ \E t \in GuiReq : KillGet(t)
    \/ \E t \in GuiReq : KillTerm(t)
    \/ \E t \in GuiReq : KillWaitExited(t)
    \/ \E t \in GuiReq : KillWaitTimeout(t)
    \/ \E t \in GuiReq : KillKill(t)
    \/ \E t \in GuiReq : KillDel(t)
    \/ \E t \in GuiReq : GetActiveConnections(t)
    \/ \E t \in GuiReq : Scan(t)
    \/ \E t \in GuiReq : Purge(t)
    \/ \E t \in GuiReq : Build(t)
    \/ CleanerNext

\* the two connection managers
Spec == Init /\ [][Next]_vars

\* the cleanup thread is a thread of its own: it is scheduled again and again
SpecLive == Spec /\ WF_vars(CleanerNext)

PingNext ==
    \/ \E ip \in IPs : PingTarget(ip)
    \/ \E outcome \in PingOutcomes : PingRun(outcome)
    \/ \E ip \in IPs : PingHost(ip)
    \/ PingTick

\* the gui program at rest, with an empty probe cache
InitPing == ConnInit("gui") /\ PingInit /\ AtRest

\* the probe cache
SpecPing == InitPing /\ [][PingNext]_vars

FleetNext ==
    \/ \E c \in StatusCallers : GetFleetStatus(c)
    \/ \E c \in StatusCallers : ReturnCached(c)
    \/ \E c \in StatusCallers : StoreStatus(c)
    \/ \E c \in StatusCallers : StampStatus(c)
    \/ \E command \in Commands : ExecuteScriptCommand(command)
    \/ \E outcome \in CommandOutcomes : CommandRun(outcome)
    \/ InvalidateCache
    \/ InvalidateStamp
    \/ FleetTick

InitFleet == ConnInit("gui") /\ PingInit /\ AtRest

\* the fleet status cache
SpecFleet == InitFleet /\ [][FleetNext]_vars


HyprNext ==
    \/ GetClients
    \/ \E op \in {"position", "scratchpad"} : \E title \in TitleInputs :
          \E geometry \in GeometryInputs : PlaceWindow(op, title, geometry)
    \/ CheckWindowExists
    \/ Dispatch
    \/ WindowChange

InitHypr == ConnInit("gui") /\ PingInit /\ AtRest

\* the window manager bridge
SpecHypr == InitHypr /\ [][HyprNext]_vars

GeoNext == CalculateGeometry

InitGeo ==
    /\ ConnInit("gui") /\ PingInit /\ Idle /\ PresetRest
    /\ hypr_monitors \in MonitorSetups

\* the geometry of the presets, on every monitor setup
SpecGeo == InitGeo /\ [][GeoNext]_vars

PresetNext ==
    \/ \E q \in PresetInputs : AddPreset(q)
    \/ \E key \in KeyInputs : \E q \in PresetInputs : EditPreset(key, q)
    \/ \E key \in KeyInputs : DeletePreset(key)
    \/ \E key \in KeyInputs : GetPreset(key)
    \/ \E key \in KeyInputs : ResolvePreset(key)
    \/ GetPresets

InitPreset ==
    /\ ConnInit("simple") /\ PingInit /\ Idle /\ GeoInit
    /\ PresetInit

\* the resolution presets
SpecPreset == InitPreset /\ [][PresetNext]_vars

MonitorNext ==
    \/ \E t \in GuiReq : \E ip \in IPs : Spawn(t, ip)
    \/ \E t \in GuiReq : SpawnTracked(t)
    \/ \E p \in Pid : MonitorPoll(p)
    \/ \E p \in Pid : MonitorRecheck(p)
    \/ \E p \in Pid : MonitorPlace(p)
    \/ \E t \in GuiReq : \E id \in AllIds : KillConnection(t, id)
    \/ \E t \in GuiReq : KillGet(t)
    \/ \E t \in GuiReq : KillTerm(t)
    \/ \E t \in GuiReq : KillWaitExited(t)
    \/ \E t \in GuiReq : KillWaitTimeout(t)
    \/ \E t \in GuiReq : KillKill(t)
    \/ \E t \in GuiReq : KillDel(t)
    \/ ProcExit
    \/ Tick

InitMonitor == ConnInit("gui") /\ PingInit /\ AtRest

\* spawn_connection with its monitoring threads
SpecMonitor == InitMonitor /\ [][MonitorNext]_vars

LockNext ==
    \/ \E t \in LockThreads : LockAcquire(t)
    \/ \E t \in LockThreads : \E first \in {"c_lookup", "d_lookup", "l_copy"} : LockCall(t, first)
    \/ \E t \in LockThreads : LockLookup(t)
    \/ \E t \in LockThreads : LockPopen(t)
    \/ \E t \in LockThreads : LockSleep(t)
    \/ \E t \in LockThreads : LockPoll(t)
    \/ \E t \in LockThreads : LockRegister(t)
    \/ \E t \in LockThreads : LockFind(t)
    \/ \E t \in LockThreads : LockTerminate(t)
    \/ \E t \in LockThreads : LockWait(t)
    \/ \E t \in LockThreads : LockKill(t)
    \/ \E t \in LockThreads : LockWaitKilled(t)
    \/ \E t \in LockThreads : LockDel(t)
    \/ \E t \in LockThreads : LockCopy(t)
    \/ LockSweep
    \/ LockWake

InitLock == ConnInit("simple") /\ PingInit /\ AtRest

\* where ConnectionManager holds connection_lock
SpecLock == InitLock /\ [][LockNext]_vars

ScanNext ==
    \/ \E ip \in Hosts : ScanSingleHost(ip)
    \/ ScanNetwork
    \/ \E ip \in Hosts : Collect(ip)
    \/ ScanStore
    \/ PortChange

InitScan == ConnInit("simple") /\ PingInit /\ AtRest

\* the network scanner
SpecScan == InitScan /\ [][ScanNext]_vars

BcNext ==
    \/ StartMonitoring
    \/ StopMonitoring
    \/ \E b \in Broadcasters : LoopTest(b)
    \/ \E b \in Broadcasters : Iterate(b)
    \/ \E b \in Broadcasters : BcWake(b)
    \/ ClientChange

InitBc == ConnInit("gui") /\ PingInit /\ AtRest

\* the status broadcaster
SpecBc == InitBc /\ [][BcNext]_vars

ConfigNext ==
    \/ \E vm_name \in VmNames, updates \in UpdateInputs : UpdateVmConfig(vm_name, updates)
    \/ GetFleetConfig

InitConfig == ConnInit("gui") /\ PingInit /\ AtRest

\* the fleet configuration
SpecConfig == InitConfig /\ [][ConfigNext]_vars

ApiNext ==
    \/ \E t \in ApiReq : \E data \in JsonBodies : ApiConnect(t, data)
    \/ \E t \in ApiReq : \E data \in JsonBodies : ApiDisconnect(t, data)
    \/ \E t \in ApiReq : \E is_json \in BOOLEAN : \E data \in JsonBodies :
          ApiSpawnRdp(t, is_json, data)
    \/ ProcExit
    \/ Tick
    \/ \E t \in ApiReq : RdpPopen(t)
    \/ \E t \in ApiReq : RdpPoll(t)
    \/ \E t \in ApiReq : Register(t)
    \/ \E t \in ApiReq : Terminate(t)
    \/ \E t \in ApiReq : WaitExited(t)
    \/ \E t \in ApiReq : WaitTimeout(t)
    \/ \E t \in ApiReq : Kill(t)
    \/ \E t \in ApiReq : Remove(t)
    \/ \E t \in ApiReq : SpawnRegister(t)

\* the two programs behind their routes
SpecApi == Init /\ [][ApiNext]_vars

FsNext ==
    \/ FsGetFleetStatus
    \/ FsCommandSucceeds
    \/ FsTick

InitFs == ConnInit("gui") /\ PingInit /\ AtRest

\* the fleet snapshot and the caches under it
SpecFs == InitFs /\ [][FsNext]_vars

AssignNext ==
    \/ \E a \in Assignments : AssignVm(a)
    \/ \E n \in 0..MaxBatch : \E assignments \in [1..n -> Assignments] : BatchAssign(assignments)
    \/ \E a \in Assignments : SpawnPlacement(a)

InitAssign == ConnInit("gui") /\ PingInit /\ AtRest

\* the placements on workspaces
SpecAssign == InitAssign /\ [][AssignNext]_vars

FwNext ==
    \/ FleetWindowActive
    \/ FleetWindowChange
    \/ \E vm_name \in DOMAIN default_config : \E ip \in AddressInputs :
          UpdateVmConfig(vm_name, [ip |-> ip])

InitFw == ConnInit("gui") /\ PingInit /\ AtRest

\* the windows of the fleet
SpecFw == InitFw /\ [][FwNext]_vars

----------------------------------------------------------------------------
(* Properties *)

\* the last step was the return of a call of `op`
Returned(op) == event.type = "return" /\ event.op = op

\* a handle for ip is registered and its process is running
RunningHandle(ip) == \E h \in HandlesFor(active_connections, ip) : Running(h.pid)

\* C1: the registry of ConnectionManager holds at most one handle per ip in
\* every reachable state, whatever the interleaving of the request threads,
\* two concurrent connects for the same ip included.
C1_OneHandlePerIp ==
    app = "simple" =>
        \A ip \in IPs : Cardinality(HandlesFor(active_connections, ip)) <= 1

\* C2: RDPManager.spawn_connection called for an ip that has a registered
\* handle with a running process returns AlreadyConnected and starts no process.
C2_SpawnRejectsSecond ==
    [][\A t \in GuiReq, ip \in IPs :
          (Spawn(t, ip) /\ RunningHandle(ip)) =>
              /\ event'.type = "return"
              /\ event'.ret = "already_connected"
              /\ proc' = proc]_vars

\* C3: ConnectionManager.connect for an ip whose handle is registered with a
\* running process returns "Already connected": the call ends at the lookup,
\* so no process is spawned, and the registry keeps the first handle.
C3_SecondConnectRejected ==
    [][\A t \in Req, ip \in IPs, kind \in KindInputs :
          (Connect(t, ip, kind) /\ RunningHandle(ip)) =>
              /\ event'.type = "return"
              /\ event'.ret = "already_connected"
              /\ pc'[t] = "idle"
              /\ proc' = proc
              /\ active_connections' = active_connections]_vars

\* C3, its case: a connect has just been rejected while the first handle's
\* process runs
C3_Witness ==
    /\ Returned("connect")
    /\ event.ret = "already_connected"
    /\ RunningHandle(event.ip)

\* C4: when disconnect(ip) has returned success the registry holds no handle
\* for ip (so a disconnect(ip) that follows finds none).
C4_NoHandleAfterDisconnect ==
    (Returned("disconnect") /\ event.ret = "ok") =>
        HandlesFor(active_connections, event.ip) = {}

\* C5: disconnect and kill_connection report success or not-found, never
\* another error, and leave the handle they worked on out of the registry.
C5_SuccessOrNotFound ==
    (Returned("disconnect") \/ Returned("kill")) =>
        /\ event.ret \in {"ok", "not_found"}
        /\ event.id \notin Keys(active_connections)

\* C6: when disconnect or kill_connection returns after it found its handle,
\* the handle is out of the registry, and if the wait of 5 s after the
\* terminate timed out, the forced kill has ended the process.
C6_KilledAndRemoved ==
    ((Returned("disconnect") \/ Returned("kill")) /\ event.pid # 0) =>
        /\ event.id \notin Keys(active_connections)
        /\ event.timedOut => ~Running(event.pid)

\* C6, its case: a disconnect or kill returns after the wait timed out
C6_Witness ==
    /\ Returned("disconnect") \/ Returned("kill")
    /\ event.timedOut
    /\ event.ret = "ok"

\* C7: the listing of ConnectionManager.get_active_connections holds no handle
\* whose process had exited when the call began.
C7_ListingExcludesDead ==
    (app = "simple" /\ Returned("list")) =>
        \A p \in event.listing : Running(p)

\* the positions of a cleanup thread that is alive
CleanerLabels == {"sweep", "scan", "purge", "sleep30", "sleep60"}

\* C8: every registered handle whose process has exited is removed in the
\* end, by the steps of the cleanup thread alone, and the cleanup loop never
\* ends, whatever exception a sweep raises.
C8_DeadHandlesRemoved ==
    /\ \A p \in Pid :
          (p \in Pids(active_connections) /\ proc[p] = "exited")
              ~> (p \notin Pids(active_connections))
    /\ [](pc[Cleaner] \in CleanerLabels)

\* C8, its case: the cleanup loop has caught an exception of its sweep and
\* sleeps, and a handle whose process has exited is registered
C8_Witness ==
    /\ pc[Cleaner] = "sleep60"
    /\ \E p \in Pids(active_connections) : proc[p] = "exited"

\* C9: the registry is iterated and changed under its lock only: while a
\* thread is inside its iteration over active_connections, no step adds or
\* deletes an entry.
C9_NoChangeWhileIterating ==
    [][(\E t \in Threads : pc[t] = "scan") =>
          active_connections' = active_connections]_vars

\* C10: a ping_target(ip) called less than 10 seconds after the result for ip
\* was stored returns the stored value and runs no ping.
C10_StoredResultReused ==
    [][\A ip \in IPs :
          (PingTarget(ip) /\ ip \in DOMAIN ping_stored
                          /\ ping_clock - ping_stored[ip] < cache_duration) =>
              /\ event'.type = "return"
              /\ ~event'.ran
              /\ event'.ret = ping_cache[ip].result]_vars

\* C11: the get_fleet_status call that follows a successful
\* execute_script_command recomputes the snapshot: it does not take the
\* cached one, whatever the time since the last update.
C11_NextStatusRecomputes ==
    [][\A c \in StatusCallers :
          (GetFleetStatus(c) /\ fleet_pending) => fleet_pc'[c] = "compute"]_vars

\* the last step was the return of position_window or assign_to_scratchpad
Placed == Returned("position") \/ Returned("scratchpad")

C13_ThreeCommandsInOrder ==
    (Returned("position") /\ event.found) =>
        /\ event.issued = <<"movetoworkspacesilent", "resizewindowpixel", "movewindowpixel">>
        /\ Len(event.codes) = 3
        /\ event.ret = (\A i \in 1..3 : event.codes[i] = "0")

\* C13, its case: the window was found and the manager rejected the second
\* command only
C13_Witness ==
    /\ Returned("position")
    /\ event.found
    /\ event.codes = <<"0", "1", "0">>
    /\ event.ret = FALSE

\* C20: get_clients never raises: when hyprctl exits with a non-zero status,
\* times out, cannot be started, or prints no valid JSON, it returns the empty
\* list.
C20_GetClientsNeverRaises ==
    Returned("clients") => ~event.raised

\* calculate_geometry_from_preset returned the "full" size of a workspace
\* whose monitor is 1920 by 1080
FullOn1080 ==
    /\ Returned("geometry")
    /\ event.size_preset = "full"
    /\ event.monitor # None
    /\ The(event.monitor).size = <<1920, 1080>>

\* C14 as stated: the "full" geometry on a 1920x1080 monitor is 1824 wide and
\* 1026 high (95% of 1920 and of 1080), within rounding.
C14_Full95OfMonitor ==
    FullOn1080 =>
        /\ event.ret[1] \in 1823..1825
        /\ event.ret[2] \in 1025..1027

\* C14, amended: the "full" geometry on a 1920x1080 monitor is 1824 wide and
\* 988 high: 95% of 1920, and 95% of the 1040 rows left under the 40 rows of
\* the bar.
C14_Full95UnderBar ==
    FullOn1080 => event.ret = <<1824, 988>>

\* C14, its case: workspace 1 is active on the only monitor, 1920 by 1080
C14_Witness ==
    /\ FullOn1080
    /\ Len(hypr_monitors) = 1
    /\ event.workspace = 1
    /\ hypr_monitors[1].activeWorkspace = 1
    /\ event.ret = <<1824, 988>>

\* C15: after add_preset(name, width, height, description), get_preset and
\* get_presets give, under the normalized key, a preset with these four fields;
\* delete_preset of a key that is present returns True and the key is in no
\* get_presets until a preset is added under it again.
C15_PresetRoundTrip ==
    [][/\ \A q \in PresetInputs :
             AddPreset(q) =>
                /\ event'.ret = Some(TRUE)
                /\ get_preset(presets', PresetKey(q.name)) = Some(q)
                /\ PresetKey(q.name) \in DOMAIN get_presets(presets')
                /\ get_presets(presets')[PresetKey(q.name)] = q
       /\ \A key \in KeyInputs :
             (DeletePreset(key) /\ key \in DOMAIN presets) =>
                /\ event'.ret = Some(TRUE)
                /\ key \notin DOMAIN get_presets(presets')
       /\ \A key \in KeyInputs :
             (key \notin DOMAIN presets /\ ~\E q \in PresetInputs :
                                               AddPreset(q) /\ PresetKey(q.name) = key)
                => key \notin DOMAIN get_presets(presets')]_vars

\* C15, its case: "h-d" was added under the key "h_d", was fetched, and the
\* key was deleted; the listing that follows is without it
C15_Witness ==
    /\ Returned("get_presets")
    /\ <<"h", "_", "d">> \notin DOMAIN The(event.ret)
    /\ presets_file # None
    /\ <<"h", "_", "d">> \in DOMAIN The(presets_file)
    /\ The(presets_file)[<<"h", "_", "d">>].name = <<"h", "-", "d">>

\* the step returns the failure of the client to start, to thread t
SpawnFailed(t) ==
    /\ event'.type = "return"
    /\ event'.thread = t
    /\ event'.ret = "spawn_failed"
    /\ event'.id = NoId

\* C16: when the client process cannot be started, the call returns a failure
\* and registers no handle: spawn_connection when Popen raises OSError, and
\* connect_rdp when the last of its four command variants has failed as the
\* others did (Popen raised, or the process had exited at the poll).
C16_SpawnFailureRegistersNothing ==
    [][/\ \A t \in GuiReq : \A ip \in IPs :
             (Spawn(t, ip) /\ proc' = proc) =>
                SpawnFailed(t) /\ active_connections' = active_connections
       /\ \A t \in Req :
             (/\ loc[t].m = RdpMethods
              /\ \/ RdpPopen(t) /\ proc' = proc
                 \/ RdpPoll(t) /\ ~Running(loc[t].pid)) =>
                SpawnFailed(t) /\ active_connections' = active_connections]_vars

\* C16, its case: connect_rdp has returned the failure after its fourth
\* variant, and no handle is registered for the ip
C16_Witness ==
    /\ app = "simple"
    /\ Returned("connect")
    /\ event.ret = "spawn_failed"
    /\ HandlesFor(active_connections, event.ip) = {}

\* C17: once the post-spawn check of spawn_connection has seen that the
\* client process exited, the recorded state of the handle is FAILED, not
\* running.
C17_ExitRecordedAsFailed ==
    \A p \in Pid :
        (mon_pc[p] \in {"recheck", "place", "done"} /\ mon_loc[p].poll_result = "exited")
            => conn_status[p] = "failed"

\* the results of the placements but the last one
EarlierResults(r) == {r.results[k] : k \in 1..(Len(r.results) - 1)}

\* C18: the monitor of spawn_connection asks for a placement only if the
\* process was still running at the poll after the wait; the titles it tries
\* are 'FreeRDP: <ip>' first and then the fallback titles in their order, each
\* one only after every earlier placement failed, none after a success.
C18_PlacementOrder ==
    \A p \in Pid :
        LET r == mon_loc[p]
        IN  /\ r.tried # <<>> => r.polled = "none"
            /\ Len(r.tried) <= Len(PlacementTitles(r.ip))
            /\ r.tried = SubSeq(PlacementTitles(r.ip), 1, Len(r.tried))
            /\ Len(r.results) = Len(r.tried)
            /\ TRUE \notin EarlierResults(r)
            /\ (mon_pc[p] = "place" /\ r.results # <<>>) => r.results[Len(r.results)] = FALSE

\* C18, its case: the placement succeeded with the second fallback title
C18_Witness ==
    \E p \in Pid :
        /\ mon_pc[p] = "done"
        /\ mon_loc[p].tried = <<CanonicalTitle("ip1"), AlternateTitles("ip1")[1],
                                AlternateTitles("ip1")[2]>>
        /\ mon_loc[p].results = <<FALSE, FALSE, TRUE>>

\* C19: ping_host and ping_target return False and never raise, whatever the
\* failure of the external ping: a non-zero exit status, a timeout, a ping
\* utility that cannot be started.
C19_PingNeverRaises ==
    (Returned("ping") \/ Returned("ping_host")) => ~event.raised

\* add_preset, edit_preset or delete_preset has returned True
PresetMutated ==
    /\ (Returned("add_preset") \/ Returned("edit_preset") \/ Returned("delete_preset"))
    /\ event.ret = Some(TRUE)

\* C27: after every add_preset, edit_preset or delete_preset call that returns
\* True, the preset file holds the presets that are in memory.
C27_FileEqualsMemory ==
    PresetMutated => presets_file = Some(presets)

\* C28: every preset is stored under the key that is the normalized form of
\* its own name, after any sequence of add_preset, edit_preset, delete_preset
\* from the default presets.
C28_KeyIsNormalizedName ==
    \A key \in DOMAIN presets : key = PresetKey(presets[key].name)

\* C22: every termination of a connection (disconnect of ConnectionManager,
\* kill_connection of RDPManager) sends its terminate and kill signals to the
\* whole process group of the client, not to the client process alone.
C22_SignalsReachGroup ==
    event.type = "signal" => event.scope = "group"

\* C30: connect(ip) of ConnectionManager is rejected as already connected
\* only when the handle registered for ip has a running process: a handle
\* whose process has exited and that is not swept yet does not block it.
C30_RejectedOnlyWhileRunning ==
    [][\A t \in Req : \A ip \in IPs : \A kind \in KindInputs :
          (Connect(t, ip, kind) /\ event'.type = "return"
                                /\ event'.ret = "already_connected")
              => RunningHandle(ip)]_vars

\* C23: ConnectionManager holds connection_lock only at statements that read
\* or change active_connections: never while it spawns a client process,
\* sleeps for a connection to establish, or waits for a process to exit.
C23_LockOnlyAroundRegistry ==
    \A t \in LockThreads :
        /\ connection_lock = t => Work(lock_pc[t]) = "registry"
        /\ Work(lock_pc[t]) \in {"spawn", "sleep", "wait", "signal", "poll"}
              => connection_lock # t

\* C23, its case: a request thread sleeps in connect_rdp and another one waits
\* for a process to exit, while the cleanup thread holds the lock for its sweep
C23_Witness ==
    /\ lock_pc["r1"] = "c_sleep"
    /\ lock_pc["r2"] = "d_wait"
    /\ lock_pc["cleaner"] = "sweep"
    /\ connection_lock = "cleaner"

\* the machine has a service
HasService(machine) ==
    machine.rdp_enabled \/ machine.vnc_enabled \/ machine.ssh_enabled

\* C21: scan_single_host gives no machine for an address on which none of
\* the ports 3389, 5900, 22 is open, whatever ping says, and every machine in
\* the result of scan_network and in the stored machine map has a service.
C21_NoServiceNoMachine ==
    /\ (Returned("scan_single_host") /\ event.open = {}) => event.ret = None
    /\ Returned("scan_network") =>
          \A ip \in DOMAIN The(event.ret) : HasService(The(event.ret)[ip])
    /\ \A ip \in DOMAIN machines : HasService(machines[ip])

\* C21, its case: a scan of the network has stored h1, which has a service,
\* and left out h2, which has none
C21_Witness ==
    /\ Returned("scan_network")
    /\ DOMAIN machines = {"h1"}
    /\ open_ports["h2"] = {}
    /\ open_ports["h1"] # {}

C25_SleepWithinAndDecreasing ==
    \A b \in Broadcasters :
        (bc_pc[b] = "sleep" /\ bc_loc[b].last = "ok") =>
            /\ bc_loc[b].sleep_time \in 3..8
            /\ \A n \in 0..MaxClients :
                  n >= bc_loc[b].clients => SleepTime(n) <= bc_loc[b].sleep_time

\* C25, its case: six subscribers, and the shortest sleep
C25_Witness ==
    \E b \in Broadcasters :
        /\ bc_pc[b] = "sleep"
        /\ bc_loc[b].last = "ok"
        /\ bc_loc[b].clients = 6
        /\ bc_loc[b].sleep_time = 3

\* C26: no step adds a machine to the fleet configuration or removes one, and
\* update_vm_config for an identifier the configuration does not have returns
\* False and changes neither the configuration nor its file.
C26_MachinesFixed ==
    [][/\ DOMAIN fleet_config' = DOMAIN fleet_config
       /\ (event'.type = "return" /\ event'.op = "update_vm_config"
             /\ event'.vm_name \notin DOMAIN fleet_config) =>
              /\ ~event'.ret
              /\ UNCHANGED <<fleet_config, config_file>>]_vars

\* C26, its case: an update of an unknown machine is refused after an update
\* of a known one was taken
C26_Witness ==
    /\ event.type = "return" /\ event.op = "update_vm_config"
    /\ event.vm_name = "vm99" /\ ~event.ret
    /\ fleet_config # default_config
    /\ config_file # None

\* C29: a request whose JSON body lacks a required field is answered with
\* status 400 and a structured failure message, and its handler and the
\* operation behind it are not reached.
C29_MissingFieldIs400 ==
    (event.type = "response" /\ ~HasField(event.data, "ip")) =>
        /\ event.status = 400
        /\ event.structured
        /\ ~event.handler

\* C31: registering a handle never overwrites a registry entry whose client
\* process runs: such an entry, as long as its id is in the registry, stays
\* the handle of the same process, so that every running registered process
\* keeps its entry.
C31_NoOverwrite ==
    [][\A h \in Handles(active_connections) :
          (Running(h.pid) /\ h.id \in Keys(active_connections')) =>
              Get(active_connections', h.id).pid = h.pid]_vars

\* C32: when connect_rdp comes to register, the process it holds is the one
\* it started last, the processes of the variants it tried before have all
\* exited, the variants were taken in order, one process at most each; and the
\* handle it registers is the handle of that process.
C32_FirstRunningVariant ==
    [][\A t \in Req :
          (app = "simple" /\ pc[t] = "register" /\ loc[t].kind = "rdp") =>
              LET r == loc[t]
              IN  /\ Len(r.tried) >= 1 /\ Len(r.tried) <= r.m /\ r.m <= RdpMethods
                  /\ r.pid = r.tried[Len(r.tried)]
                  /\ \A i \in 1..(Len(r.tried) - 1) : proc[r.tried[i]] = "exited"
                  /\ pc'[t] = "idle" =>
                        \E h \in Handles(active_connections') :
                            h.pid = r.pid /\ h.ip = r.ip]_vars

\* C32, its case: the call registered the process of its second variant, still
\* running, the first having exited
C32_Witness ==
    /\ app = "simple"
    /\ event.type = "return" /\ event.op = "connect" /\ event.ret = "ok"
    /\ event.pid = 2 /\ Running(2)
    /\ proc[1] = "exited" /\ 1 \notin Pids(active_connections)
    /\ 2 \in Pids(active_connections)

\* C33: in every state update_vm_config calls lead to, every machine of the
\* fleet configuration has a workspace from 1 to 10, a position of left,
\* center or right, and an ip of four parts of digits, each from 0 to 255.
C33_EveryConfigValid ==
    \A vm \in DOMAIN fleet_config :
        LET c == fleet_config[vm]
        IN  /\ c.workspace \in 1..10
            /\ c.position \in {"left", "center", "right"}
            /\ Len(c.ip) = 4
            /\ \A i \in 1..4 : c.ip[i] \in 0..255

\* C33, its case: an update with a bad address was refused after updates
\* of the address, the workspace and the position were taken
C33_Witness ==
    /\ event.type = "return" /\ event.op = "update_vm_config" /\ ~event.ret
    /\ event.vm_name = "vm20" /\ event.updates = [ip |-> <<10, 0, 0, 256>>]
    /\ fleet_config["vm20"] = [ip |-> <<10, 0, 0, 5>>, workspace |-> 5, position |-> "right"]

\* C34: whenever update_vm_config returns False, the fleet configuration in
\* memory is what it was before the call.
C34_FalseChangesNothing ==
    [][(event'.type = "return" /\ event'.op = "update_vm_config" /\ ~event'.ret) =>
          fleet_config' = fleet_config]_vars

\* C35: a snapshot that get_fleet_status recomputes after a successful fleet
\* command is built from a ping result and a window list probed after that
\* command completed, never from one cached before it.
C35_SnapshotProbedAfterCommand ==
    (event.type = "return" /\ event.op = "get_fleet_status" /\ event.recomputed) =>
        /\ event.ret.online.after = fs_commands
        /\ event.ret.window_active.after = fs_commands

\* C36: no movetoworkspace command names a numbered workspace outside 1..10,
\* whichever of the two routes or the spawn asked for the placement.
C36_MovesWithinOneToTen == wm_moves \subseteq 1..10

\* C37: batch_assign_vms answers with one result for every entry of
\* 'assignments', in their order; an assignment that fails or is malformed
\* does not keep the later ones from being processed.
C37_OneResultPerAssignment ==
    (event.type = "response" /\ event.route = "/api/workspaces/batch-assign") =>
        /\ Len(event.results) = Len(event.assignments)
        /\ \A i \in 1..Len(event.assignments) :
              event.assignments[i].vm_ip # None =>
                  event.results[i].vm_ip = The(event.assignments[i].vm_ip)

\* C38: after any calls of start_monitoring and stop_monitoring, one status
\* broadcaster thread at most is inside the loop of _monitor_status.
C38_OneBroadcaster ==
    Cardinality({b \in Broadcasters : bc_pc[b] \in {"body", "sleep"}}) <= 1

\* C40: after any calls of add_preset, edit_preset and delete_preset,
\* connect_rdp resolves a preset for every resolution key, known or not: the
\* lookup of the preset never makes it fail.
C40_PresetAlwaysResolved ==
    (event.type = "return" /\ event.op = "connect_rdp") => event.ret # None

\* C39: the window_active flag of a machine is true only if the window
\* titled for the machine's own address exists; the window of a machine with
\* another address does not make it true.
C39_OwnWindowOnly ==
    (event.type = "return" /\ event.op = "window_active") =>
        \A vm \in DOMAIN fleet_config :
            event.ret[vm] => FleetTitle(fleet_config[vm].ip) \in hypr_windows

====
